---- MODULE Spec2Model ----
(***************************************************************************)
(* State-machine model of the fossil L1-L2 relayer's Accumulator Core:     *)
(*   - AccumulatorBuilder (crates/host and crates/publisher variants):     *)
(*     process_batch, update_mmr_state, build_with_num_batches,            *)
(*     build_from_finalized, update_mmr_with_new_headers;                  *)
(*   - BatchProcessor::process_batch (crates/publisher/src/core).          *)
(* Hashes are modelled as nested tuples: the hash of block n is <<n>>, the *)
(* hash of a pair is <<l, r>>, so that the hash function is injective.     *)
(***************************************************************************)
EXTENDS Integers, Sequences, FiniteSets, TLC

\* ------------------------------------------------------------------ bounds
\* Highest block number of the header store / finalized head.
MaxBlock == 3
\* Largest batch_size a builder or processor is constructed with.
MaxBatchSize == 2
\* Cap on the public calls (build_*, update_mmr_with_new_headers) of one
\* behaviour.
MaxCalls == 2
\* Cap on num_batches passed to build_with_num_batches.
MaxNumBatches == 2

\* ------------------------------------------------------------------ hashes
BlockHash(n) == <<n>>
HashPair(l, r) == <<l, r>>
\* A hash that is no block hash and no pair hash of the model.
BadHash == <<-1>>

Min(a, b) == IF a <= b THEN a ELSE b
Max(a, b) == IF a >= b THEN a ELSE b
\* u64::saturating_sub
saturating_sub(a, b) == IF a >= b THEN a - b ELSE 0

RECURSIVE PopCount(_)
PopCount(n) == IF n = 0 THEN 0 ELSE (n % 2) + PopCount(n \div 2)

RECURSIVE TrailingOnes(_)
TrailingOnes(n) == IF n % 2 = 1 THEN 1 + TrailingOnes(n \div 2) ELSE 0

RECURSIVE bit_length(_)
bit_length(n) == IF n = 0 THEN 0 ELSE 1 + bit_length(n \div 2)

\* ------------------------------------------------------------- MMR engine
\* The mmr crate is an external collaborator of the accumulator; it is
\* modelled from the design's description (classical MMR peak arithmetic).
RECURSIVE FindPeaksFrom(_, _, _, _)
FindPeaksFrom(mountain, shift, remaining, acc) ==
    IF mountain = 0
    THEN IF remaining > 0 THEN <<>> ELSE acc
    ELSE IF mountain <= remaining
         THEN FindPeaksFrom(mountain \div 2, shift + mountain,
                            remaining - mountain, Append(acc, shift + mountain))
         ELSE FindPeaksFrom(mountain \div 2, shift, remaining, acc)

find_peaks(elements_count) ==
    FindPeaksFrom(2 ^ bit_length(elements_count) - 1, 0, elements_count, <<>>)

\* An MMR: the two counters, the node table and the secondary index.
EmptyMMR ==
    [elements_count |-> 0, leaves_count |-> 0,
     hashes |-> <<>>, hash_to_index |-> <<>>]

\* mmr.get_peaks(PeaksOptions::default()): the stored hashes at the peak
\* indices of the current elements_count (indices with no stored hash give
\* no entry).
get_peaks(m) ==
    LET idxs == find_peaks(m.elements_count)
        present == SelectSeq(idxs, LAMBDA i : i \in DOMAIN m.hashes)
    IN  [k \in 1..Len(present) |-> m.hashes[present[k]]]

RECURSIVE BagSeq(_)
BagSeq(peaks) ==
    IF Len(peaks) = 0 THEN <<>>
    ELSE IF Len(peaks) = 1 THEN peaks[1]
    ELSE HashPair(Head(peaks), BagSeq(Tail(peaks)))

bag_the_peaks(m) == BagSeq(get_peaks(m))

calculate_root_hash(bag, elements_count) == << <<elements_count>>, bag, <<>> >>

\* ------------------------------------------------------------------ guest
\* The guest program (inside the zkVM) appends new_elements to the MMR
\* described by the input's peaks and counters.
RECURSIVE MergePeaks(_, _)
MergePeaks(st, k) ==
    IF k = 0 \/ Len(st.peaks) < 2 THEN st
    ELSE LET n == Len(st.peaks)
             parent == HashPair(st.peaks[n - 1], st.peaks[n])
         IN  MergePeaks([st EXCEPT !.peaks = Append(SubSeq(st.peaks, 1, n - 2), parent),
                                   !.ec = st.ec + 1,
                                   !.all = Append(st.all, <<st.ec + 1, parent>>)],
                        k - 1)

\* The leaf appended without the merges of equal-height peaks.
AppendLeaf_no_merge(st, h) ==
    [st EXCEPT !.peaks = Append(st.peaks, h),
               !.ec = st.ec + 1,
               !.lc = st.lc + 1,
               !.all = Append(st.all, <<st.ec + 1, h>>),
               !.apps = Append(st.apps, [root_hash |-> h, element_index |-> st.ec + 1])]

AppendLeaf(st, h) ==
    LET st1 == [st EXCEPT !.peaks = Append(st.peaks, h),
                          !.ec = st.ec + 1,
                          !.all = Append(st.all, <<st.ec + 1, h>>),
                          !.apps = Append(st.apps,
                                          [root_hash |-> h, element_index |-> st.ec + 1])]
        st2 == MergePeaks(st1, TrailingOnes(st.lc))
    IN  [st2 EXCEPT !.lc = st.lc + 1]

RECURSIVE AppendAll(_, _)
AppendAll(st, elems) ==
    IF elems = <<>> THEN st ELSE AppendAll(AppendLeaf(st, Head(elems)), Tail(elems))

\* The output of a guest that appends exactly the supplied elements.
FaithfulOutput(input) ==
    LET st == AppendAll([peaks |-> input.initial_peaks, ec |-> input.elements_count,
                         lc |-> input.leaves_count, all |-> <<>>, apps |-> <<>>],
                        input.new_elements)
    IN  [final_peaks |-> st.peaks, elements_count |-> st.ec, leaves_count |-> st.lc,
         append_results |-> st.apps, all_hashes |-> st.all]

\* The journals the host may have to decode: the faithful one and journals
\* that differ from it in one field.
GuestKinds ==
    {"faithful", "elements_dec", "leaves_dec", "short_peaks", "bad_peak", "no_hashes"}

DropLast(s) == IF s = <<>> THEN s ELSE SubSeq(s, 1, Len(s) - 1)

GuestOutputOf(kind, input) ==
    LET g == FaithfulOutput(input)
    IN  CASE kind = "elements_dec" ->
               [g EXCEPT !.elements_count = saturating_sub(input.elements_count, 1)]
          [] kind = "leaves_dec" ->
               [g EXCEPT !.leaves_count = saturating_sub(input.leaves_count, 1)]
          [] kind = "short_peaks" -> [g EXCEPT !.final_peaks = DropLast(g.final_peaks)]
          [] kind = "bad_peak" ->
               [g EXCEPT !.final_peaks = Append(DropLast(g.final_peaks), BadHash)]
          [] kind = "no_hashes" -> [g EXCEPT !.append_results = <<>>, !.all_hashes = <<>>]
          [] OTHER -> g

\* ----------------------------------------------------------- header store
\* get_block_headers_by_block_range(start, end): the stored headers with
\* start <= number <= end, ascending.
RECURSIVE RangeSeq(_, _, _)
RangeSeq(blocks, lo, hi) ==
    IF lo > hi THEN <<>>
    ELSE IF lo \in blocks THEN <<lo>> \o RangeSeq(blocks, lo + 1, hi)
    ELSE RangeSeq(blocks, lo + 1, hi)

get_block_headers_by_block_range(blocks, start, end) == RangeSeq(blocks, start, end)

BlockHashes(headers) == [i \in 1..Len(headers) |-> BlockHash(headers[i])]

\* ------------------------------------------------- commit (update_mmr_state)
\* One store write of the commit; every write is awaited on its own.
SetElementsCount(n) == [op |-> "elements_count.set", k |-> n, v |-> <<>>]
SetLeavesCount(n) == [op |-> "leaves_count.set", k |-> n, v |-> <<>>]
HashesSet(h, i) == [op |-> "hashes.set", k |-> i, v |-> h]
InsertValueIndexMapping(h, i) == [op |-> "insert_value_index_mapping", k |-> i, v |-> h]

ApplyWrite(m, w) ==
    CASE w.op = "elements_count.set" -> [m EXCEPT !.elements_count = w.k]
      [] w.op = "leaves_count.set" -> [m EXCEPT !.leaves_count = w.k]
      [] w.op = "hashes.set" -> [m EXCEPT !.hashes = (w.k :> w.v) @@ m.hashes]
      [] OTHER -> [m EXCEPT !.hash_to_index = (w.v :> w.k) @@ m.hash_to_index]

RECURSIVE ApplyWrites(_, _)
ApplyWrites(m, ws) ==
    IF ws = <<>> THEN m ELSE ApplyWrites(ApplyWrite(m, Head(ws)), Tail(ws))

RECURSIVE NodeWrites(_)
NodeWrites(nodes) ==
    IF nodes = <<>> THEN <<>>
    ELSE <<HashesSet(Head(nodes)[2], Head(nodes)[1]),
           InsertValueIndexMapping(Head(nodes)[2], Head(nodes)[1])>>
         \o NodeWrites(Tail(nodes))

\* host: for (peak_hash, &peak_idx) in final_peaks.iter().zip(peaks_indices.iter())
PeakWrites(final_peaks, peaks_indices) ==
    [i \in 1..Min(Len(final_peaks), Len(peaks_indices)) |->
        HashesSet(final_peaks[i], peaks_indices[i])]

AppendResultNodes(go) ==
    [i \in 1..Len(go.append_results) |->
        <<go.append_results[i].element_index, go.append_results[i].root_hash>>]

\* The writes of update_mmr_state, in program order.
CommitWrites(v, go) ==
    <<SetElementsCount(go.elements_count), SetLeavesCount(go.leaves_count)>>
    \o (IF v = "host"
        THEN NodeWrites(AppendResultNodes(go))
             \o PeakWrites(go.final_peaks, find_peaks(go.elements_count))
        ELSE NodeWrites(go.all_hashes))

\* The check that opens update_mmr_state.
InvalidTransition(m, go) == go.elements_count < m.elements_count

\* host only: stored_peaks != guest_output.final_peaks after the writes.
PeaksMismatch(v, m, go) == v = "host" /\ get_peaks(m) # go.final_peaks

NewRoot(m) == calculate_root_hash(bag_the_peaks(m), m.elements_count)

\* update_mmr_state with the transition check made after the writes.
update_mmr_state_check_late(v, m, go) ==
    LET m2 == ApplyWrites(m, CommitWrites(v, go))
    IN  IF InvalidTransition(m, go)
        THEN [mmr |-> m2, err |-> "InvalidStateTransition", root |-> <<>>]
        ELSE IF PeaksMismatch(v, m2, go)
        THEN [mmr |-> m2, err |-> "PeaksVerificationError", root |-> <<>>]
        ELSE [mmr |-> m2, err |-> "None", root |-> NewRoot(m2)]

\* AccumulatorBuilder::update_mmr_state as one call: the MMR it leaves, the
\* error it returns ("None" for Ok) and the root it computed.
update_mmr_state(v, m, go) ==
    IF InvalidTransition(m, go)
    THEN [mmr |-> m, err |-> "InvalidStateTransition", root |-> <<>>]
    ELSE LET m2 == ApplyWrites(m, CommitWrites(v, go))
         IN  IF PeaksMismatch(v, m2, go)
             THEN [mmr |-> m2, err |-> "PeaksVerificationError", root |-> <<>>]
             ELSE [mmr |-> m2, err |-> "None", root |-> NewRoot(m2)]

\* ------------------------------------------------------------------ state
VARIABLES
    variant,          \* "host" or "publisher": which AccumulatorBuilder is built
    batch_size,       \* AccumulatorBuilder.batch_size / BatchProcessor.batch_size
    header_store,     \* block numbers the header store holds
    mmr,              \* AccumulatorBuilder.mmr with store_manager's index
    total_batches,    \* AccumulatorBuilder.total_batches
    current_batch,    \* AccumulatorBuilder.current_batch
    previous_proofs,  \* AccumulatorBuilder.previous_proofs
    run,              \* the build_* call in progress: its loop variables
    ret,              \* what the last finished public call returned
    last,             \* the last process_batch call: its inputs and outcome
    faults,           \* how many journals so far were not the faithful one
    calls,            \* how many public calls were made so far
    commit,           \* the update_mmr_state call in progress, write by write
    batch_files,      \* BatchProcessor: batch_index -> the MMR of batch_{index}.db
    bp_last,          \* BatchProcessor: the last process_batch call and its return
    execs,            \* BatchProcessor: the process_batch calls in progress
    v_last,           \* ValidatorBuilder: the last validate_blocks_and_extract_fees call
    cli,              \* publisher cli::build_mmr::run: its arguments and what it did
    host_main,        \* host bin build_mmr main: the results it saw, what it submitted
    pf,               \* MMR engine: the last inclusion proof taken and its verification
    hex,              \* update_mmr_state: a root string and what its validation returned
    update_main       \* publisher bin update_mmr main: what it proved and submitted

builder_vars == <<mmr, total_batches, current_batch, previous_proofs, run, ret, last>>
vars == <<variant, batch_size, header_store, mmr, total_batches, current_batch,
          previous_proofs, run, ret, last, faults, calls, commit, batch_files, bp_last, execs, v_last,
                   cli, host_main, pf, hex, update_main>>

\* Cap on the number of unfaithful journals in one behaviour.
MaxFaults == 1


Idle == [pc |-> "idle", current_end |-> 0, left |-> 0, results |-> <<>>]
NoInput == [initial_peaks |-> <<>>, elements_count |-> 0, leaves_count |-> 0,
            new_elements |-> <<>>]
NoCommit == [pc |-> "idle", pre |-> EmptyMMR, go |-> FaithfulOutput(NoInput),
             todo |-> <<>>, err |-> "None"]
NoBatchCall ==
    [batch_index |-> 0, start_block |-> 0, end_block |-> 0, adjusted_end_block |-> 0,
     fetched |-> <<>>, proved |-> FALSE, new_elements |-> <<>>,
     returned |-> "none", err_range |-> <<>>, result |-> <<>>]
\* The record of a validate_blocks_and_extract_fees call: its inputs, the
\* fetched headers, the batch files it opened, the on-chain roots it read,
\* the prover calls it made, and what it returned.
NoValidation ==
    [start_block |-> 0, end_block |-> 0, skip_proof |-> FALSE, headers |-> <<>>,
     opened |-> <<>>, local_roots |-> <<>>, root_reads |-> <<>>,
     onchain_roots |-> <<>>, prover_inputs |-> <<>>, prover_calls |-> <<>>, returned |-> "none",
     expected |-> <<>>, actual |-> <<>>, proofs |-> <<>>]
\* A process_batch execution slot with no call in it.
NoExec == [pc |-> "idle", batch_index |-> 0, adjusted_end_block |-> 0,
           input |-> NoInput, go |-> FaithfulOutput(NoInput)]
\* Number of process_batch calls that may be in progress on one BatchProcessor.
MaxExecs == 2
NoExecs == [i \in 1..MaxExecs |-> NoExec]
\* cli run not started: no arguments, nothing invoked. None is <<>>, Some(x)
\* is <<x>>.
NoRun ==
    [pc |-> "none", from_latest |-> FALSE, start_block |-> <<>>, num_batches |-> <<>>,
     setup_ok |-> TRUE, mode_ok |-> TRUE, err |-> "None", invoked |-> <<>>]
\* host main at its build call: no result seen, nothing submitted.
NoMain == [pc |-> "building", results |-> <<>>, submitted |-> <<>>, err |-> "None"]
\* No inclusion proof taken yet.
NoProof == [element_index |-> 0, proof |-> <<>>, leaf_hash |-> <<>>,
            mutation |-> <<>>, verdict |-> "none"]
\* No root string validated yet.
NoHex == [pc |-> "none", hex_str |-> <<>>, u256_ok |-> TRUE, validated |-> "none",
          returned |-> "none"]
\* update_mmr main not run: nothing proved, nothing submitted.
NoUpdateMain ==
    [pc |-> "none", start |-> 0, end |-> 0, prove_err |-> "None",
     new_mmr_state |-> <<>>, submitted |-> <<>>, err |-> "None"]
NoCall == [op |-> "none", args |-> <<>>, err |-> "None", results |-> <<>>]
NoBatch ==
    [start_block |-> 0, end_block |-> 0, asked |-> "none", input_proofs |-> <<>>,
     final_peaks |-> <<>>, err |-> "None", n_headers |-> 0, prover_calls |-> 0]

\* What the prover may do with one request: fail, or return a receipt whose
\* journal is one of the guest outputs.
ProverOutcomes == GuestKinds \cup {"prover_fail"}

\* The final-batch test against total_batches instead of total_batches - 1.
IsFinalBatch_off_by_one(cur, total) == cur = total

\* self.current_batch == self.total_batches - 1. For total_batches = 0 the
\* wrapped difference is u64::MAX, which current_batch never equals, as with
\* the integer -1 here.
IsFinalBatch(cur, total) == cur = total - 1

BatchProofOf(proof) == [receipt |-> proof.receipt]

\* The STARK proof put in front of previous_proofs instead of at its end.
PushIfStark_front(proofs, proof) ==
    IF proof.type = "Stark" THEN <<BatchProofOf(proof)>> \o proofs ELSE proofs

\* if let ProofType::Stark { .. } = proof { self.previous_proofs.push(..) }
PushIfStark(proofs, proof) ==
    IF proof.type = "Stark" THEN Append(proofs, BatchProofOf(proof)) ELSE proofs

\* current_batch advanced at the top of process_batch, before the steps that
\* can fail.
CurrentBatchAfter_early(cur, err) == cur + 1

\* self.current_batch += 1 is the last statement before Ok(..): every `?`
\* and early return above it leaves current_batch as it was.
CurrentBatchAfter(cur, err) == IF err = "None" THEN cur + 1 ELSE cur

\* AccumulatorBuilder::process_batch as one call on the builder state b =
\* [mmr, total_batches, current_batch, previous_proofs]: the builder state it
\* leaves, the error it returns ("None" for Ok), the BatchResult and the
\* record of the call.
process_batch(v, b, blocks, start_block, end_block, outcome) ==
    LET headers == get_block_headers_by_block_range(blocks, start_block, end_block)
        input == [initial_peaks |-> get_peaks(b.mmr),
                  elements_count |-> b.mmr.elements_count,
                  leaves_count |-> b.mmr.leaves_count,
                  new_elements |-> BlockHashes(headers)]
        asked == IF IsFinalBatch(b.current_batch, b.total_batches)
                 THEN "Groth16" ELSE "Stark"
        proof == [type |-> asked, receipt |-> <<start_block, end_block>>]
        go == GuestOutputOf(outcome, input)
        upd == update_mmr_state(v, b.mmr, go)
        call == [start_block |-> start_block, end_block |-> end_block, asked |-> asked,
                 input_proofs |-> b.previous_proofs, final_peaks |-> go.final_peaks,
                 err |-> "None", n_headers |-> Len(headers), prover_calls |-> 1]
        pushed == PushIfStark(b.previous_proofs, proof)
    IN  IF outcome = "prover_fail"
        THEN [b |-> [b EXCEPT !.current_batch =
                                 CurrentBatchAfter(b.current_batch, "ProofGenerator")],
              err |-> "ProofGenerator", result |-> <<>>,
              call |-> [call EXCEPT !.err = "ProofGenerator"]]
        ELSE IF upd.err # "None"
        THEN [b |-> [b EXCEPT !.mmr = upd.mmr,
                              !.current_batch = CurrentBatchAfter(b.current_batch, upd.err)],
              err |-> upd.err, result |-> <<>>,
              call |-> [call EXCEPT !.err = upd.err]]
        ELSE IF v = "host" /\ get_peaks(upd.mmr) # go.final_peaks
        THEN [b |-> [b EXCEPT !.mmr = upd.mmr, !.previous_proofs = pushed,
                              !.current_batch =
                                 CurrentBatchAfter(b.current_batch, "PeaksVerificationError")],
              err |-> "PeaksVerificationError", result |-> <<>>,
              call |-> [call EXCEPT !.err = "PeaksVerificationError"]]
        ELSE [b |-> [b EXCEPT !.mmr = upd.mmr, !.previous_proofs = pushed,
                              !.current_batch = CurrentBatchAfter(b.current_batch, "None")],
              err |-> "None",
              result |-> <<[start_block |-> start_block, end_block |-> end_block,
                            root_hash |-> upd.root, proof |-> proof]>>,
              call |-> call]

Builder == [mmr |-> mmr, total_batches |-> total_batches,
            current_batch |-> current_batch, previous_proofs |-> previous_proofs]

SetBuilder(b) ==
    /\ mmr' = b.mmr
    /\ total_batches' = b.total_batches
    /\ current_batch' = b.current_batch
    /\ previous_proofs' = b.previous_proofs

\* The model's caps: no more than MaxFaults unfaithful journals and no more
\* than MaxCalls public calls in one behaviour.
IsFault(outcome) == outcome \notin {"faithful", "prover_fail"}

CountFault(outcome) ==
    /\ IsFault(outcome) => faults < MaxFaults
    /\ faults' = IF IsFault(outcome) THEN faults + 1 ELSE faults

CountCall ==
    /\ calls < MaxCalls
    /\ calls' = calls + 1

\* ---------------------------------------------------------------- builder
Init ==
    /\ variant \in {"host", "publisher"}
    /\ batch_size \in 1..MaxBatchSize
    /\ header_store = 0..MaxBlock
    /\ mmr = EmptyMMR
    /\ total_batches = 0
    /\ current_batch = 0
    /\ previous_proofs = <<>>
    /\ run = Idle
    /\ ret = NoCall
    /\ last = NoBatch
    /\ faults = 0
    /\ calls = 0
    /\ commit = NoCommit
    /\ batch_files = <<>>
    /\ bp_last = NoBatchCall
    /\ execs = NoExecs
    /\ v_last = NoValidation
    /\ cli = NoRun
    /\ host_main = NoMain
    /\ pf = NoProof
    /\ update_main = NoUpdateMain
    /\ hex = NoHex

\* A public call in progress, with its inputs.
Pending(op, args) == [op |-> op, args |-> args, err |-> "Pending", results |-> <<>>]

\* build_with_num_batches up to its loop: the finalized head is read, the
\* counters are reset; a loop that runs no iteration returns at once.
BuildWithNumBatchesStart(finalized_block_number, num_batches) ==
    /\ run.pc = "idle"
    /\ CountCall
    /\ total_batches' = num_batches
    /\ current_batch' = 0
    /\ previous_proofs' = <<>>
    /\ last' = NoBatch
    /\ IF num_batches = 0 \/ finalized_block_number = 0
       THEN /\ run' = Idle
            /\ ret' = [Pending("build_with_num_batches",
                                <<finalized_block_number, num_batches>>)
                          EXCEPT !.err = "None"]
       ELSE /\ run' = [pc |-> "build_with_num_batches",
                       current_end |-> finalized_block_number,
                       left |-> num_batches, results |-> <<>>]
            /\ ret' = Pending("build_with_num_batches",
                               <<finalized_block_number, num_batches>>)
    /\ UNCHANGED <<variant, batch_size, header_store, mmr, faults,
                   commit, batch_files, bp_last, execs, v_last,
                   cli, host_main, pf, hex, update_main>>

\* build_from_finalized up to its loop.
BuildFromFinalizedStart(finalized_block_number) ==
    /\ run.pc = "idle"
    /\ CountCall
    /\ total_batches' = (finalized_block_number \div batch_size) + 1
    /\ current_batch' = 0
    /\ previous_proofs' = <<>>
    /\ last' = NoBatch
    /\ IF finalized_block_number = 0
       THEN /\ run' = Idle
            /\ ret' = [Pending("build_from_finalized", <<finalized_block_number>>)
                          EXCEPT !.err = "None"]
       ELSE /\ run' = [pc |-> "build_from_finalized",
                       current_end |-> finalized_block_number,
                       left |-> 0, results |-> <<>>]
            /\ ret' = Pending("build_from_finalized", <<finalized_block_number>>)
    /\ UNCHANGED <<variant, batch_size, header_store, mmr, faults,
                   commit, batch_files, bp_last, execs, v_last,
                   cli, host_main, pf, hex, update_main>>

\* Whether the loop of the running build_* call takes another iteration.
LoopContinues(pc, current_end, left) ==
    IF pc = "build_with_num_batches" THEN left > 0 /\ current_end # 0
    ELSE current_end > 0

\* The batch's error swallowed: the loop goes on to the next batch.
Propagates_never(err) == FALSE

\* self.process_batch(start_block, current_end).await? : an Err returns from
\* the build at once.
Propagates(err) == err # "None"

\* current_end left where the batch started.
NextCurrentEnd_stuck(start_block) == start_block

\* current_end = start_block.saturating_sub(1)
NextCurrentEnd(start_block) == saturating_sub(start_block, 1)

\* The rest of a loop iteration once process_batch returned r for
\* [start_block, current_end]: `?`, push, the new current_end, and the return
\* when the loop ends.
AfterProcessBatch(r, start_block) ==
    LET results == run.results \o r.result
        current_end == NextCurrentEnd(start_block)
        left == IF run.pc = "build_with_num_batches" THEN run.left - 1 ELSE 0
    IN  /\ SetBuilder(r.b)
        /\ last' = r.call
        /\ IF Propagates(r.err)
           THEN /\ run' = Idle
                /\ ret' = [ret EXCEPT !.err = r.err]
           ELSE IF LoopContinues(run.pc, current_end, left)
           THEN /\ run' = [run EXCEPT !.current_end = current_end, !.left = left,
                                      !.results = results]
                /\ UNCHANGED ret
           ELSE /\ run' = Idle
                /\ ret' = [ret EXCEPT !.err = "None", !.results = results]

\* One iteration of the loop of build_with_num_batches / build_from_finalized.
BuildIteration(outcome) ==
    /\ run.pc \in {"build_with_num_batches", "build_from_finalized"}
    /\ CountFault(outcome)
    /\ AfterProcessBatch(process_batch(variant, Builder, header_store,
                                       saturating_sub(run.current_end, batch_size - 1),
                                       run.current_end, outcome),
                         saturating_sub(run.current_end, batch_size - 1))
    /\ UNCHANGED <<variant, batch_size, header_store, calls,
                   commit, batch_files, bp_last, execs, v_last,
                   cli, host_main, pf, hex, update_main>>

\* The batch count of an update without its + 1.
UpdateTotalBatches_floor(start_block, end_block, size) ==
    (end_block - start_block) \div size

\* self.total_batches = ((end_block - start_block) / self.batch_size) + 1
UpdateTotalBatches(start_block, end_block, size) ==
    ((end_block - start_block) \div size) + 1

\* What update_mmr_with_new_headers makes of process_batch's return r.
UpdateReturn(r) ==
    /\ SetBuilder(r.b)
    /\ last' = r.call
    /\ ret' = [Pending("update_mmr_with_new_headers",
                       <<r.call.start_block, r.call.end_block>>)
              EXCEPT !.err = IF r.err # "None" THEN r.err
                             ELSE IF r.result[1].proof.type = "Groth16" THEN "None"
                             ELSE "ExpectedGroth16Proof",
                     !.results = IF r.err = "None" /\ r.result[1].proof.type = "Groth16"
                                 THEN r.result ELSE <<>>]

\* update_mmr_with_new_headers(start_block, end_block), start_block <= end_block.
UpdateMmrWithNewHeaders(start_block, end_block, outcome) ==
    /\ run.pc = "idle"
    /\ start_block <= end_block
    /\ CountCall
    /\ CountFault(outcome)
    /\ UpdateReturn(process_batch(variant,
                                  [Builder EXCEPT !.total_batches =
                                      UpdateTotalBatches(start_block, end_block,
                                                         batch_size)],
                                  header_store, start_block, end_block, outcome))
    /\ UNCHANGED <<variant, batch_size, header_store, run,
                   commit, batch_files, bp_last, execs, v_last,
                   cli, host_main, pf, hex, update_main>>

Next ==
    \/ \E f \in 0..MaxBlock, n \in 0..MaxNumBatches : BuildWithNumBatchesStart(f, n)
    \/ \E f \in 0..MaxBlock : BuildFromFinalizedStart(f)
    \/ \E o \in ProverOutcomes : BuildIteration(o)
    \/ \E s \in 0..MaxBlock, e \in 0..MaxBlock, o \in ProverOutcomes :
          UpdateMmrWithNewHeaders(s, e, o)

Spec == Init /\ [][Next]_vars

\* The build_* calls alone.
NextBuild ==
    \/ \E f \in 0..MaxBlock, n \in 0..MaxNumBatches : BuildWithNumBatchesStart(f, n)
    \/ \E f \in 0..MaxBlock : BuildFromFinalizedStart(f)
    \/ \E o \in ProverOutcomes : BuildIteration(o)

\* The loop of a running build_* call goes on: a process_batch call that was
\* started returns and the loop body takes its step. This is weak fairness
\* of BuildIteration written out: while a build is running the loop body is
\* the one enabled action, and each of its steps changes run.
LoopFairness == []<>(run.pc = "idle") \/ []<><<run.pc # "idle">>_run

SpecLive == Init /\ [][NextBuild]_vars /\ LoopFairness

\* ------------------------------------------- the commit, write by write
\* process_batch up to the first write of update_mmr_state: headers fetched,
\* proof generated, journal decoded, transition checked.
CommitBegin(start_block, end_block, outcome) ==
    /\ commit.pc # "writing"
    /\ start_block <= end_block
    /\ outcome # "prover_fail"
    /\ CountCall
    /\ CountFault(outcome)
    /\ LET headers == get_block_headers_by_block_range(header_store, start_block, end_block)
           input == [initial_peaks |-> get_peaks(mmr),
                     elements_count |-> mmr.elements_count,
                     leaves_count |-> mmr.leaves_count,
                     new_elements |-> BlockHashes(headers)]
           go == GuestOutputOf(outcome, input)
       IN  commit' = IF InvalidTransition(mmr, go)
                     THEN [pc |-> "returned", pre |-> mmr, go |-> go, todo |-> <<>>,
                           err |-> "InvalidStateTransition"]
                     ELSE [pc |-> "writing", pre |-> mmr, go |-> go,
                           todo |-> CommitWrites(variant, go), err |-> "None"]
    /\ UNCHANGED <<variant, batch_size, header_store, builder_vars, batch_files, bp_last, execs, v_last,
                   cli, host_main, pf, hex, update_main>>

\* One awaited store write of update_mmr_state.
CommitWrite ==
    /\ commit.pc = "writing"
    /\ commit.todo # <<>>
    /\ mmr' = ApplyWrite(mmr, Head(commit.todo))
    /\ commit' = [commit EXCEPT !.todo = Tail(commit.todo)]
    /\ UNCHANGED <<variant, batch_size, header_store, total_batches, current_batch,
                   previous_proofs, run, ret, last, faults, calls, batch_files, bp_last, execs, v_last,
                   cli, host_main, pf, hex, update_main>>

\* After the last write: the peaks check and the return.
CommitReturn ==
    /\ commit.pc = "writing"
    /\ commit.todo = <<>>
    /\ commit' = [commit EXCEPT !.pc = "returned",
                                !.err = IF PeaksMismatch(variant, mmr, commit.go)
                                        THEN "PeaksVerificationError" ELSE "None"]
    /\ UNCHANGED <<variant, batch_size, header_store, builder_vars, faults, calls,
                   batch_files, bp_last, execs, v_last,
                   cli, host_main, pf, hex, update_main>>

\* The future is dropped (or the process stops) at a suspension point of
\* update_mmr_state: no further write is made.
CommitCancel ==
    /\ commit.pc = "writing"
    /\ commit' = [commit EXCEPT !.pc = "cancelled", !.todo = <<>>]
    /\ UNCHANGED <<variant, batch_size, header_store, builder_vars, faults, calls,
                   batch_files, bp_last, execs, v_last,
                   cli, host_main, pf, hex, update_main>>

NextCancel ==
    \/ \E s \in 0..MaxBlock, e \in 0..MaxBlock, o \in GuestKinds : CommitBegin(s, e, o)
    \/ CommitWrite
    \/ CommitReturn
    \/ CommitCancel

InitCancel == Init /\ batch_size = 1

SpecCancel == InitCancel /\ [][NextCancel]_vars

\* --------------------------------------------------------- BatchProcessor
\* MMRStateManager::update_state is not among the sources; it is modelled
\* from the design (4.6): transition check, counters, all_hashes with their
\* index entries, peaks check, root; a failed verification leaves the MMR
\* as it was.
update_state(m, go) ==
    IF InvalidTransition(m, go)
    THEN [mmr |-> m, err |-> "InvalidStateTransition", root |-> <<>>]
    ELSE LET m2 == ApplyWrites(m, CommitWrites("publisher", go))
         IN  IF get_peaks(m2) # go.final_peaks
             THEN [mmr |-> m, err |-> "PeaksVerificationError", root |-> <<>>]
             ELSE [mmr |-> m2, err |-> "None", root |-> NewRoot(m2)]

\* calculate_batch_bounds with batch_end one block too far.
calculate_batch_bounds_off_by_one(size, batch_index) ==
    <<batch_index * size, batch_index * size + size>>

calculate_batch_bounds(size, batch_index) ==
    LET batch_start == batch_index * size
        batch_end == batch_start + size - 1
    IN  <<batch_start, batch_end>>

\* The completeness test with > for >=.
BatchIsComplete_strict(current_leaves_count, size) == current_leaves_count > size

\* if current_leaves_count as u64 >= self.batch_size
BatchIsComplete(current_leaves_count, size) == current_leaves_count >= size

\* The emptiness test left out: an empty fetch goes on to the prover.
HeadersEmpty_never(headers) == FALSE

\* if headers.is_empty()
HeadersEmpty(headers) == headers = <<>>

\* initialize_mmr(batch_{index}.db): the stored MMR, a new empty one when the
\* file did not exist.
OpenBatch(files, batch_index) ==
    IF batch_index \in DOMAIN files THEN files ELSE (batch_index :> EmptyMMR) @@ files

\* BatchProcessor::process_batch as one call: the batch files it leaves and
\* the record of the call (what it fetched, whether it proved, what it
\* returned: "None", "Some" with the BatchResult, or the error).
BatchProcessor_process_batch(files, blocks, size, start_block, end_block, outcome) ==
    LET batch_index == start_block \div size
        batch_end == calculate_batch_bounds(size, batch_index)[2]
        adjusted_end_block == Min(end_block, batch_end)
        opened == OpenBatch(files, batch_index)
        m == opened[batch_index]
        headers == get_block_headers_by_block_range(blocks, start_block, adjusted_end_block)
        new_headers == BlockHashes(headers)
        input == [initial_peaks |-> get_peaks(m), elements_count |-> m.elements_count,
                  leaves_count |-> m.leaves_count, new_elements |-> new_headers]
        go == GuestOutputOf(outcome, input)
        upd == update_state(m, go)
        call == [batch_index |-> batch_index, start_block |-> start_block,
                 end_block |-> end_block, adjusted_end_block |-> adjusted_end_block,
                 fetched |-> <<>>, proved |-> FALSE, new_elements |-> <<>>,
                 returned |-> "None", err_range |-> <<>>, result |-> <<>>]
        asked == [call EXCEPT !.fetched = <<start_block, adjusted_end_block>>]
    IN  IF BatchIsComplete(m.leaves_count, size)
        THEN [files |-> opened, call |-> call]
        ELSE IF HeadersEmpty(headers)
        THEN [files |-> opened,
              call |-> [asked EXCEPT !.returned = "EmptyHeaders",
                                     !.err_range = <<start_block, adjusted_end_block>>]]
        ELSE IF outcome = "prover_fail"
        THEN [files |-> opened,
              call |-> [asked EXCEPT !.proved = TRUE, !.returned = "ProofGenerator"]]
        ELSE IF upd.err # "None"
        THEN [files |-> [opened EXCEPT ![batch_index] = upd.mmr],
              call |-> [asked EXCEPT !.proved = TRUE, !.returned = upd.err]]
        ELSE [files |-> [opened EXCEPT ![batch_index] = upd.mmr],
              call |-> [asked EXCEPT !.proved = TRUE, !.returned = "Some",
                                     !.new_elements = headers,
                                     !.result =
                                        <<[start_block |-> start_block,
                                           end_block |-> adjusted_end_block,
                                           new_mmr_state |->
                                              [latest_block_number |-> adjusted_end_block,
                                               root_hash |-> upd.root,
                                               elements_count |-> go.elements_count,
                                               leaves_count |-> go.leaves_count],
                                           proof |-> [type |-> "Groth16",
                                                      receipt |-> <<start_block,
                                                                    adjusted_end_block>>]]>>]]

\* The header stores the processor is run against: a complete one and one
\* that lacks the highest block.
HeaderStores == {0..MaxBlock, 0..(MaxBlock - 1)}

InitBatch ==
    /\ variant = "publisher"
    /\ batch_size \in 1..MaxBatchSize
    /\ header_store \in HeaderStores
    /\ mmr = EmptyMMR
    /\ total_batches = 0
    /\ current_batch = 0
    /\ previous_proofs = <<>>
    /\ run = Idle
    /\ ret = NoCall
    /\ last = NoBatch
    /\ faults = 0
    /\ calls = 0
    /\ commit = NoCommit
    /\ batch_files = <<>>
    /\ bp_last = NoBatchCall
    /\ execs = NoExecs
    /\ v_last = NoValidation
    /\ cli = NoRun
    /\ host_main = NoMain
    /\ pf = NoProof
    /\ update_main = NoUpdateMain
    /\ hex = NoHex

ProcessBatch(start_block, end_block, outcome) ==
    /\ CountCall
    /\ CountFault(outcome)
    /\ LET r == BatchProcessor_process_batch(batch_files, header_store, batch_size,
                                             start_block, end_block, outcome)
       IN  /\ batch_files' = r.files
           /\ bp_last' = r.call
    /\ UNCHANGED <<variant, batch_size, header_store, builder_vars, commit, execs, v_last,
                   cli, host_main, pf, hex, update_main>>

NextBatch ==
    \E s \in 0..MaxBlock, e \in 0..MaxBlock, o \in ProverOutcomes : ProcessBatch(s, e, o)

SpecBatch == InitBatch /\ [][NextBatch]_vars

\* ------------------------------------------------------- claims: builder
BuildOps == {"build_with_num_batches", "build_from_finalized"}

ProofTypes(results) == [i \in 1..Len(results) |-> results[i].proof.type]

\* The last process_batch call got through its commit.
Committed == last.asked # "none" /\ last.err = "None"

\* C1: a build_* run that returned Ok with at least one BatchResult emitted
\* exactly one Groth16 proof, for its last batch, and STARK proofs otherwise.
C1_ChainDiscipline ==
    (ret.op \in BuildOps /\ ret.err = "None" /\ ret.results # <<>>) =>
        /\ ret.results[Len(ret.results)].proof.type = "Groth16"
        /\ \A i \in 1..(Len(ret.results) - 1) : ret.results[i].proof.type = "Stark"

\* C2: update_mmr_with_new_headers(start, end), start <= end, never returns
\* ExpectedGroth16Proof: whenever prover and commit succeed it returns the
\* Groth16 calldata and the new MMR state.
C2_UpdateProducesGroth16 ==
    ret.op = "update_mmr_with_new_headers" =>
        /\ ret.err # "ExpectedGroth16Proof"
        /\ (Committed => (ret.err = "None" /\ Len(ret.results) = 1
                          /\ ret.results[1].proof.type = "Groth16"))

\* C3: a commit that fails with InvalidStateTransition leaves the stored MMR
\* (counters, node hashes, hash_to_index) as it was before the call.
C3_InvalidTransitionLeavesMmr ==
    [][last'.err = "InvalidStateTransition" => mmr' = mmr]_vars

\* C3 witness: a process_batch call was refused with InvalidStateTransition
\* on a non-empty MMR.
C3_Witness ==
    /\ last.err = "InvalidStateTransition"
    /\ mmr.elements_count > 0
    /\ DOMAIN mmr.hashes # {}

\* C4: a commit that fails with PeaksVerificationError leaves the stored MMR
\* as it was before the call.
C4_PeaksErrorLeavesMmr ==
    [][last'.err = "PeaksVerificationError" => mmr' = mmr]_vars

\* C6: across every committed transition both counters are non-decreasing.
C6_CountersMonotone ==
    [][(last'.asked # "none" /\ last'.err = "None") =>
          /\ mmr'.elements_count >= mmr.elements_count
          /\ mmr'.leaves_count >= mmr.leaves_count]_vars

\* C7: after every successful commit the hashes stored at
\* find_peaks(elements_count) are guest_output.final_peaks.
C7_StoredPeaksAreFinalPeaks ==
    Committed => get_peaks(mmr) = last.final_peaks

\* Element index of the k-th leaf (k = 1, 2, ...): 1, 2, 4, 5, 8, ...
LeafIndex(k) == 2 * (k - 1) - PopCount(k - 1) + 1

LeafIndices(m) == {LeafIndex(k) : k \in 1..m.leaves_count}

\* C8: after every committed transition the secondary index agrees with the
\* node table on the leaves: hash_to_index[h] = i iff hashes[i] = h.
C8_IndexAgreesWithLeaves ==
    Committed =>
        /\ \A i \in LeafIndices(mmr) \cap DOMAIN mmr.hashes :
              /\ mmr.hashes[i] \in DOMAIN mmr.hash_to_index
              /\ mmr.hash_to_index[mmr.hashes[i]] = i
        /\ \A h \in DOMAIN mmr.hash_to_index :
              mmr.hash_to_index[h] \in LeafIndices(mmr) =>
                 /\ mmr.hash_to_index[h] \in DOMAIN mmr.hashes
                 /\ mmr.hashes[mmr.hash_to_index[h]] = h

\* ----------------------------------------------- claims: cancelled commit
\* C5: the commit is atomic under cancellation: after update_mmr_state was
\* interrupted at a suspension point the stored MMR is the complete
\* pre-state or the complete post-state.
C5_CommitAtomic ==
    commit.pc = "cancelled" =>
        \/ mmr = commit.pre
        \/ mmr = ApplyWrites(commit.pre, CommitWrites(variant, commit.go))

\* ------------------------------- BatchProcessor: calls that run concurrently
\* process_batch takes &self, so several calls may be in progress on one
\* BatchProcessor; each runs from one .await to the next. The three steps
\* below are process_batch cut at its two long awaits (the prover call and
\* the commit).
Running == {"snapshot", "proved"}

\* process_batch up to the prover call: bounds, the batch file opened, the
\* complete-batch skip, the header fetch, the snapshot of peaks and counters.
ExecSnapshot(m, k, adjusted_end_block, headers, size) ==
    IF BatchIsComplete(m.leaves_count, size)
    THEN [NoExec EXCEPT !.pc = "skipped", !.batch_index = k]
    ELSE IF HeadersEmpty(headers)
    THEN [NoExec EXCEPT !.pc = "failed", !.batch_index = k]
    ELSE [NoExec EXCEPT !.pc = "snapshot", !.batch_index = k,
                        !.adjusted_end_block = adjusted_end_block,
                        !.input = [initial_peaks |-> get_peaks(m),
                                   elements_count |-> m.elements_count,
                                   leaves_count |-> m.leaves_count,
                                   new_elements |-> BlockHashes(headers)]]

ExecBegin(i, start_block, end_block) ==
    /\ execs[i].pc \notin Running
    /\ CountCall
    /\ batch_files' = OpenBatch(batch_files, start_block \div batch_size)
    /\ execs' = [execs EXCEPT ![i] =
          ExecSnapshot(batch_files'[start_block \div batch_size],
                       start_block \div batch_size,
                       Min(end_block,
                           calculate_batch_bounds(batch_size,
                                                  start_block \div batch_size)[2]),
                       get_block_headers_by_block_range(
                           header_store, start_block,
                           Min(end_block,
                               calculate_batch_bounds(batch_size,
                                                      start_block \div batch_size)[2])),
                       batch_size)]
    /\ UNCHANGED <<variant, batch_size, header_store, builder_vars, faults, commit,
                   bp_last, v_last,
                   cli, host_main, pf, hex, update_main>>

\* generate_groth16_proof(..).await and decode_journal.
ExecProve(i, outcome) ==
    /\ execs[i].pc = "snapshot"
    /\ CountFault(outcome)
    /\ execs' = [execs EXCEPT ![i] =
          IF outcome = "prover_fail"
          THEN [NoExec EXCEPT !.pc = "failed", !.batch_index = execs[i].batch_index]
          ELSE [execs[i] EXCEPT !.pc = "proved",
                                !.go = GuestOutputOf(outcome, execs[i].input)]]
    /\ UNCHANGED <<variant, batch_size, header_store, builder_vars, calls, commit,
                   batch_files, bp_last, v_last,
                   cli, host_main, pf, hex, update_main>>

\* What the commit leaves in the execution slot: the snapshot it was made
\* from is kept with a committed call.
ExecAfterCommit(e, upd) ==
    IF upd.err = "None"
    THEN [e EXCEPT !.pc = "committed", !.go = NoExec.go]
    ELSE [NoExec EXCEPT !.pc = "failed", !.batch_index = e.batch_index]

\* MMRStateManager::update_state(..).await on the batch file as it is now,
\* and the return.
ExecCommit(i) ==
    /\ execs[i].pc = "proved"
    /\ batch_files' =
          [batch_files EXCEPT ![execs[i].batch_index] =
              update_state(batch_files[execs[i].batch_index], execs[i].go).mmr]
    /\ execs' = [execs EXCEPT ![i] =
          ExecAfterCommit(execs[i],
                          update_state(batch_files[execs[i].batch_index], execs[i].go))]
    /\ UNCHANGED <<variant, batch_size, header_store, builder_vars, faults, calls,
                   commit, bp_last, v_last,
                   cli, host_main, pf, hex, update_main>>

NextConcurrent ==
    \/ \E i \in 1..MaxExecs, s \in 0..MaxBlock, e \in 0..MaxBlock : ExecBegin(i, s, e)
    \/ \E i \in 1..MaxExecs, o \in ProverOutcomes : ExecProve(i, o)
    \/ \E i \in 1..MaxExecs : ExecCommit(i)

SpecConcurrent == InitBatch /\ [][NextConcurrent]_vars

\* --------------------------------------------------------------- Validator
SeqRange(q) == {q[i] : i \in DOMAIN q}

\* header.number as u64 / self.batch_size
BatchIndexOf(number, size) == number \div size

\* initialize_mmrs_for_headers: the batch files opened, in the order the
\* headers name them, up to the first one that does not exist.
RECURSIVE initialize_mmrs_for_headers(_, _, _, _)
initialize_mmrs_for_headers(headers, files, size, acc) ==
    IF headers = <<>> THEN [opened |-> acc, ok |-> TRUE]
    ELSE IF BatchIndexOf(Head(headers), size) \in SeqRange(acc)
    THEN initialize_mmrs_for_headers(Tail(headers), files, size, acc)
    ELSE IF BatchIndexOf(Head(headers), size) \notin DOMAIN files
    THEN [opened |-> acc, ok |-> FALSE]
    ELSE initialize_mmrs_for_headers(Tail(headers), files, size,
                                      Append(acc, BatchIndexOf(Head(headers), size)))

\* A root no batch MMR of the model has.
OtherRoot == << <<0>>, BadHash, <<>> >>

\* verify_single_mmr_root: bag_the_peaks and calculate_root_hash at the
\* stored elements_count.
mmr_root(m) == calculate_root_hash(bag_the_peaks(m), m.elements_count)

\* The comparison inverted: == for !=.
RootDiffers_inverted(onchain_root, files, batch_index) ==
    onchain_root = mmr_root(files[batch_index])

\* if onchain_root.clone() != mmr_root
RootDiffers(onchain_root, files, batch_index) ==
    onchain_root # mmr_root(files[batch_index])

\* verify_mmr_roots: the batches are taken in the map's iteration order and
\* the first mismatch is returned.
RECURSIVE verify_mmr_roots(_, _, _)
verify_mmr_roots(order, files, onchain) ==
    IF order = <<>> THEN [err |-> "None", expected |-> <<>>, actual |-> <<>>]
    ELSE IF RootDiffers(onchain[Head(order)], files, Head(order))
    THEN [err |-> "InvalidMmrRoot", expected |-> onchain[Head(order)],
          actual |-> mmr_root(files[Head(order)])]
    ELSE verify_mmr_roots(Tail(order), files, onchain)

\* store_manager.get_element_index_for_value(pool, &header.block_hash)
get_element_index_for_value(m, hash) ==
    IF hash \in DOMAIN m.hash_to_index THEN <<m.hash_to_index[hash]>> ELSE <<>>

\* collect_block_indexes: (element index, batch_index) of every header, in
\* header order; fails at the first header whose hash has no index.
RECURSIVE collect_block_indexes(_, _, _, _)
collect_block_indexes(headers, files, size, acc) ==
    IF headers = <<>> THEN [block_indexes |-> acc, ok |-> TRUE]
    ELSE IF get_element_index_for_value(files[BatchIndexOf(Head(headers), size)],
                                        BlockHash(Head(headers))) = <<>>
    THEN [block_indexes |-> acc, ok |-> FALSE]
    ELSE collect_block_indexes(
             Tail(headers), files, size,
             Append(acc, <<get_element_index_for_value(
                               files[BatchIndexOf(Head(headers), size)],
                               BlockHash(Head(headers)))[1],
                           BatchIndexOf(Head(headers), size)>>))

get_batch_block_indexes(block_indexes, batch_index) ==
    LET mine == SelectSeq(block_indexes, LAMBDA p : p[2] = batch_index)
    IN  [i \in 1..Len(mine) |-> mine[i][1]]

\* Every fetched header handed to every batch.
get_batch_headers_all(headers, size, batch_index) == headers

\* get_batch_headers: the headers whose number / batch_size is batch_index.
get_batch_headers(headers, size, batch_index) ==
    SelectSeq(headers, LAMBDA n : BatchIndexOf(n, size) = batch_index)

\* mmr.get_proofs(indexes): one inclusion proof per requested index.
get_proofs(m, indexes) ==
    [i \in 1..Len(indexes) |->
        [element_index |-> indexes[i],
         element_hash |-> IF indexes[i] \in DOMAIN m.hashes
                          THEN m.hashes[indexes[i]] ELSE <<>>,
         elements_count |-> m.elements_count]]

\* The stored node hashes sent again as new_elements.
prepare_mmr_input_with_elements(m) ==
    [initial_peaks |-> get_peaks(m), elements_count |-> m.elements_count,
     leaves_count |-> m.leaves_count, new_elements |-> m.hashes]

\* prepare_mmr_input: the current peaks and counters, vec![] as new_elements.
prepare_mmr_input(m) ==
    [initial_peaks |-> get_peaks(m), elements_count |-> m.elements_count,
     leaves_count |-> m.leaves_count, new_elements |-> <<>>]

\* get_batch_proofs: mmr.get_proofs for the batch's element indexes; short
\* is the engine returning one proof fewer than asked.
get_batch_proofs(m, batch_block_indexes, short) ==
    IF short THEN DropLast(get_proofs(m, batch_block_indexes))
    ELSE get_proofs(m, batch_block_indexes)

\* The BlocksValidityInput of one batch.
BatchValidityInput(headers, files, size, batch_index, guest_proofs) ==
    [batch_index |-> batch_index,
     headers |-> get_batch_headers(headers, size, batch_index),
     mmr_input |-> prepare_mmr_input(files[batch_index]),
     proofs |-> guest_proofs]

\* The vector of proofs created anew in every iteration of the loop.
PushProof_overwrite(proofs, proof) == <<proof>>

\* proofs.push(proof)
PushProof(proofs, proof) == Append(proofs, proof)

\* generate_batch_proof for the batch at the head of order, given the
\* inclusion proofs the engine returned for it: the count check, then the
\* prover, which fails when this is the fail_at-th prover call.
generate_batch_proof(order, headers, files, size, guest_proofs, fail_at, acc) ==
    IF Len(get_batch_headers(headers, size, Head(order))) # Len(guest_proofs)
    THEN [acc EXCEPT !.returned = "InvalidProofsCount", !.proofs = <<>>,
                     !.expected = Len(get_batch_headers(headers, size, Head(order))),
                     !.actual = Len(guest_proofs)]
    ELSE IF Len(acc.prover_calls) + 1 = fail_at
    THEN [acc EXCEPT !.returned = "ProofGenerator", !.proofs = <<>>,
                     !.prover_calls = Append(acc.prover_calls, Head(order)),
                     !.prover_inputs =
                         Append(acc.prover_inputs,
                                BatchValidityInput(headers, files, size, Head(order),
                                                   guest_proofs))]
    ELSE [acc EXCEPT !.prover_calls = Append(acc.prover_calls, Head(order)),
                     !.prover_inputs =
                         Append(acc.prover_inputs,
                                BatchValidityInput(headers, files, size, Head(order),
                                                   guest_proofs)),
                     !.proofs = PushProof(acc.proofs,
                                          BatchValidityInput(headers, files, size,
                                                             Head(order), guest_proofs))]

\* generate_proofs_for_batches: one generate_batch_proof per opened batch, in
\* the map's iteration order; the fail_at-th prover call fails (0: none), the
\* short_at-th batch gets one inclusion proof too few (0: none). at counts the
\* batches taken.
RECURSIVE generate_proofs_for_batches(_, _, _, _, _, _, _, _, _)
generate_proofs_for_batches(order, headers, files, size, indexes, fail_at, short_at, at, acc) ==
    IF acc.returned # "none" THEN acc
    ELSE IF order = <<>> THEN [acc EXCEPT !.returned = "Ok"]
    ELSE generate_proofs_for_batches(
             Tail(order), headers, files, size, indexes, fail_at, short_at, at + 1,
             generate_batch_proof(
                 order, headers, files, size,
                 get_batch_proofs(files[Head(order)],
                                  get_batch_block_indexes(indexes, Head(order)),
                                  at = short_at),
                 fail_at, acc))

\* Root verification left out whatever skip_proof says.
VerifiesRoots_never(skip_proof) == FALSE

\* if self.skip_proof { ... } else { self.verify_mmr_roots(&mmrs).await?; }
VerifiesRoots(skip_proof) == ~skip_proof

\* validate_blocks_and_extract_fees after initialize_mmrs_for_headers opened
\* every batch file: root verification (unless skip_proof), element
\* indexes, proofs. call holds the inputs and the fetched headers.
ValidateOpened(call, files, size, order, onchain, fail_at, short_at) ==
    IF VerifiesRoots(call.skip_proof)
       /\ verify_mmr_roots(order, files, onchain).err # "None"
    THEN [call EXCEPT !.returned = "InvalidMmrRoot",
                      !.root_reads = order, !.onchain_roots = onchain,
                      !.expected = verify_mmr_roots(order, files, onchain).expected,
                      !.actual = verify_mmr_roots(order, files, onchain).actual]
    ELSE IF ~collect_block_indexes(call.headers, files, size, <<>>).ok
    THEN [call EXCEPT !.returned = "StoreGetError",
                      !.root_reads = IF VerifiesRoots(call.skip_proof)
                                     THEN order ELSE <<>>,
                      !.onchain_roots = IF VerifiesRoots(call.skip_proof)
                                        THEN onchain ELSE <<>>]
    ELSE generate_proofs_for_batches(
             order, call.headers, files, size,
             collect_block_indexes(call.headers, files, size, <<>>).block_indexes,
             fail_at, short_at, 1,
             [call EXCEPT !.root_reads = IF VerifiesRoots(call.skip_proof)
                                         THEN order ELSE <<>>,
                          !.onchain_roots = IF VerifiesRoots(call.skip_proof)
                                            THEN onchain ELSE <<>>])

\* ValidatorBuilder::validate_blocks_and_extract_fees as one call. order is
\* the iteration order of the map of opened batches, onchain the root the
\* chain holds for each of them; a call meets at most one of the faults
\* fail_at and short_at. local_roots records the root of every
\* opened batch file as it is during the call.
validate_blocks_and_extract_fees(call, files, size, order, onchain, fail_at, short_at) ==
    IF call.headers = <<>>
    THEN [call EXCEPT !.returned = "InvalidInput"]
    ELSE IF ~initialize_mmrs_for_headers(call.headers, files, size, <<>>).ok
    THEN [call EXCEPT !.returned = "StoreGetError",
                      !.opened = initialize_mmrs_for_headers(call.headers, files,
                                                             size, <<>>).opened]
    ELSE ValidateOpened(
             [call EXCEPT !.opened = order,
                          !.local_roots = [k \in SeqRange(order) |-> mmr_root(files[k])]],
             files, size, order, onchain, fail_at, short_at)

\* The batch files initialize_mmrs_for_headers ends up with for a range.
OpenedFor(start_block, end_block) ==
    SeqRange(initialize_mmrs_for_headers(
                 get_block_headers_by_block_range(header_store, start_block, end_block),
                 batch_files, batch_size, <<>>).opened)

\* The iteration orders a map with the keys S may have.
Orders(S) ==
    {q \in [1..Cardinality(S) -> S] : \A i, j \in 1..Cardinality(S) : q[i] = q[j] => i = j}

\* The roots the chain may hold for the batches S: the local one or another.
\* With skip_proof the chain is not read.
OnchainRoots(S, skip_proof) ==
    IF skip_proof THEN {<<>>} ELSE
    {f \in [S -> {mmr_root(batch_files[k]) : k \in S} \cup {OtherRoot}] :
        \A k \in S : f[k] \in {mmr_root(batch_files[k]), OtherRoot}}

\* One validate_blocks_and_extract_fees call; the call reads the batch files
\* and writes none, so a behaviour holds one call, made at any point.
Validate(start_block, end_block, skip_proof, order, onchain, fail_at, short_at) ==
    /\ v_last = NoValidation
    /\ v_last' = validate_blocks_and_extract_fees(
                    [NoValidation EXCEPT
                        !.start_block = start_block, !.end_block = end_block,
                        !.skip_proof = skip_proof,
                        !.headers = get_block_headers_by_block_range(
                                        header_store, start_block, end_block)],
                    batch_files, batch_size, order, onchain, fail_at, short_at)
    /\ UNCHANGED <<variant, batch_size, header_store, builder_vars, faults, calls,
                   commit, batch_files, bp_last, execs, cli, host_main, pf, hex, update_main>>

NextValidator ==
    \/ \E s \in 0..MaxBlock, e \in 0..MaxBlock, o \in ProverOutcomes : ProcessBatch(s, e, o)
    \/ \E s \in 0..MaxBlock, e \in 0..MaxBlock, skip \in BOOLEAN :
          \E order \in Orders(OpenedFor(s, e)) :
             \E onchain \in OnchainRoots(OpenedFor(s, e), skip) :
                \E fail_at \in 0..Len(order), short_at \in 0..Len(order) :
                   /\ fail_at = 0 \/ short_at = 0
                   /\ Validate(s, e, skip, order, onchain, fail_at, short_at)

\* The validator over batch files of the largest batch size.
InitValidator == InitBatch /\ batch_size = MaxBatchSize

SpecValidator == InitValidator /\ [][NextValidator]_vars

\* ------------------------------------------------ publisher cli: run(args)
\* The conflict arm never taken.
Conflicting_never(from_latest, start_block) == FALSE

\* (true, Some(_), _)
Conflicting(from_latest, start_block) == from_latest /\ start_block # <<>>

\* The arms of the match on (from_latest, start_block, num_batches) that call
\* the builder: the mode called, with its arguments.
DrivingMode(from_latest, start_block, num_batches) ==
    IF from_latest
    THEN IF num_batches # <<>>
         THEN <<"build_from_latest_with_batches", num_batches[1]>>
         ELSE <<"build_from_latest">>
    ELSE IF start_block # <<>>
    THEN IF num_batches # <<>>
         THEN <<"build_from_block_with_batches", start_block[1], num_batches[1]>>
         ELSE <<"build_from_block", start_block[1]>>
    ELSE IF num_batches # <<>>
    THEN <<"build_with_num_batches", num_batches[1]>>
    ELSE <<"build_from_finalized">>

ConflictMessage == "Cannot specify both --from-latest and --start-block"

\* run(args): the environment, the provider, the account and the builder are
\* set up (setup_ok: without an error), then the match; mode_ok is whether
\* the build mode called returns Ok.
cli_run(c) ==
    IF ~c.setup_ok
    THEN [c EXCEPT !.pc = "returned", !.err = "Setup"]
    ELSE IF Conflicting(c.from_latest, c.start_block)
    THEN [c EXCEPT !.pc = "returned", !.err = ConflictMessage]
    ELSE [c EXCEPT !.pc = "returned",
                   !.invoked = <<DrivingMode(c.from_latest, c.start_block, c.num_batches)>>,
                   !.err = IF c.mode_ok THEN "None" ELSE "Build"]

\* Option<u64> over 0..n.
OptionOf(n) == {<<>>} \cup {<<x>> : x \in 0..n}

\* The argument combinations run may be given.
CliStarts ==
    [pc : {"start"}, from_latest : BOOLEAN, start_block : OptionOf(MaxBlock),
     num_batches : OptionOf(MaxNumBatches), setup_ok : BOOLEAN, mode_ok : BOOLEAN,
     err : {"None"}, invoked : {<<>>}]

InitRun ==
    /\ variant = "publisher"
    /\ batch_size \in 1..MaxBatchSize
    /\ header_store = 0..MaxBlock
    /\ mmr = EmptyMMR
    /\ total_batches = 0
    /\ current_batch = 0
    /\ previous_proofs = <<>>
    /\ run = Idle
    /\ ret = NoCall
    /\ last = NoBatch
    /\ faults = 0
    /\ calls = 0
    /\ commit = NoCommit
    /\ batch_files = <<>>
    /\ bp_last = NoBatchCall
    /\ execs = NoExecs
    /\ v_last = NoValidation
    /\ cli \in CliStarts
    /\ host_main = NoMain
    /\ pf = NoProof
    /\ update_main = NoUpdateMain
    /\ hex = NoHex

RunCli ==
    /\ cli.pc = "start"
    /\ cli' = cli_run(cli)
    /\ UNCHANGED <<variant, batch_size, header_store, builder_vars, faults, calls,
                   commit, batch_files, bp_last, execs, v_last, host_main, pf, hex, update_main>>

NextRun == RunCli

SpecRun == InitRun /\ [][NextRun]_vars

\* ------------------------------------------------ host bin build_mmr: main
\* Every proof submitted, whatever its type.
Submittable_any(proof) == TRUE

\* match result.proof() { Some(ProofType::Groth16 { calldata, .. }) => submit }
Submittable(proof) == proof.type = "Groth16"

\* The loop of main over the results of the build: a Groth16 result is
\* submitted with verify_groth16_proof_onchain, a STARK result is logged;
\* the fail_at-th submission returns an error (0: none), which ends main.
RECURSIVE process_results(_, _, _)
process_results(results, fail_at, acc) ==
    IF results = <<>> THEN [acc EXCEPT !.pc = "finished"]
    ELSE IF ~Submittable(Head(results).proof)
    THEN process_results(Tail(results), fail_at, acc)
    ELSE IF Len(acc.submitted) + 1 = fail_at
    THEN [acc EXCEPT !.pc = "failed", !.err = "Verify",
                     !.submitted = Append(acc.submitted, Head(results).proof)]
    ELSE process_results(Tail(results), fail_at,
                         [acc EXCEPT !.submitted = Append(acc.submitted,
                                                          Head(results).proof)])

\* main from the return of its build call on: `?` on an Err, the loop over
\* the results otherwise.
main_after_build(r, fail_at) ==
    IF r.err # "None"
    THEN [NoMain EXCEPT !.pc = "failed", !.err = r.err]
    ELSE process_results(r.results, fail_at, [NoMain EXCEPT !.results = r.results])

HostMain(fail_at) ==
    /\ variant = "host"
    /\ host_main.pc = "building"
    /\ run.pc = "idle"
    /\ ret.op \in {"build_with_num_batches", "build_from_finalized"}
    /\ ret.err # "Pending"
    /\ host_main' = main_after_build(ret, fail_at)
    /\ UNCHANGED <<variant, batch_size, header_store, builder_vars, faults, calls,
                   commit, batch_files, bp_last, execs, v_last, cli, pf, hex, update_main>>

InitHost == Init /\ variant = "host"

NextHost ==
    \/ \E f \in 0..MaxBlock, n \in 0..MaxNumBatches : BuildWithNumBatchesStart(f, n)
    \/ \E f \in 0..MaxBlock : BuildFromFinalizedStart(f)
    \/ \E o \in ProverOutcomes : BuildIteration(o)
    \/ \E fail_at \in 0..MaxNumBatches : HostMain(fail_at)

SpecHost == InitHost /\ [][NextHost]_vars

\* ------------------------------------------- MMR engine: inclusion proofs
\* append, get_proof and verify_proof are not among the sources; they are
\* modelled from the design (4.1): Proof = {element_index, element_hash,
\* siblings_hashes, peaks_hashes, elements_count}, verified against the
\* MMR's root, with the classical MMR index arithmetic.
MaxLeaves == 8
\* The leaf values appended to the engine's MMR.
LeafValues == {BlockHash(0), BlockHash(1)}

\* mmr_size_to_leaf_count: the leaves among the first n elements.
RECURSIVE LeafCountFrom(_, _, _)
LeafCountFrom(mountain, remaining, acc) ==
    IF mountain = 0 THEN acc
    ELSE IF mountain <= remaining
         THEN LeafCountFrom(mountain \div 2, remaining - mountain,
                            acc + (mountain + 1) \div 2)
         ELSE LeafCountFrom(mountain \div 2, remaining, acc)

mmr_size_to_leaf_count(n) == LeafCountFrom(2 ^ bit_length(n) - 1, n, 0)

\* An element index is a leaf's when the elements before it form an MMR.
IsLeafIndex(i) == i >= 1 /\ (i = 1 \/ find_peaks(i - 1) # <<>>)

\* element_index_to_leaf_index: the 0-based position of a leaf element.
element_index_to_leaf_index(i) == mmr_size_to_leaf_count(i - 1)

\* Every node taken for a left child.
IsRightChild_never(leaf_index) == FALSE

\* leaf_index % 2 == 1
IsRightChild(leaf_index) == leaf_index % 2 = 1

\* find_siblings: the element indexes of the siblings on the way from a leaf
\* to its peak.
RECURSIVE FindSiblingsFrom(_, _, _, _, _)
FindSiblingsFrom(current, leaf_index, height, elements_count, acc) ==
    IF current > elements_count THEN DropLast(acc)
    ELSE IF leaf_index % 2 = 1
         THEN FindSiblingsFrom(current + 1, leaf_index \div 2, height + 1,
                               elements_count,
                               Append(acc, current - (2 ^ (height + 1) - 1)))
         ELSE FindSiblingsFrom(current + 2 ^ (height + 1), leaf_index \div 2,
                               height + 1, elements_count,
                               Append(acc, current + (2 ^ (height + 1) - 1)))

find_siblings(element_index, elements_count) ==
    FindSiblingsFrom(element_index, element_index_to_leaf_index(element_index), 0,
                     elements_count, <<>>)

\* get_peak_info: <<position among the peaks, height>> of the mountain that
\* holds element_index.
RECURSIVE PeakInfoFrom(_, _, _, _, _)
PeakInfoFrom(mountain, height, elements_count, element_index, peak_index) ==
    IF mountain = 0 THEN <<0, 0>>
    ELSE IF mountain <= elements_count
         THEN IF element_index <= mountain THEN <<peak_index, height - 1>>
              ELSE PeakInfoFrom(mountain \div 2, height - 1, elements_count - mountain,
                                element_index - mountain, peak_index + 1)
         ELSE PeakInfoFrom(mountain \div 2, height - 1, elements_count, element_index,
                           peak_index)

get_peak_info(elements_count, element_index) ==
    PeakInfoFrom(2 ^ bit_length(elements_count) - 1, bit_length(elements_count),
                 elements_count, element_index, 1)

\* mmr.append(h): the leaf and the parents its merges create are stored and
\* the counters advanced.
append(m, h) ==
    ApplyWrites(m, CommitWrites("publisher",
                                FaithfulOutput([initial_peaks |-> get_peaks(m),
                                                elements_count |-> m.elements_count,
                                                leaves_count |-> m.leaves_count,
                                                new_elements |-> <<h>>])))

\* mmr.get_proof(element_index, None)
get_proof(m, element_index) ==
    [element_index |-> element_index,
     element_hash |-> m.hashes[element_index],
     siblings_hashes |->
        [k \in 1..Len(find_siblings(element_index, m.elements_count)) |->
            m.hashes[find_siblings(element_index, m.elements_count)[k]]],
     peaks_hashes |-> get_peaks(m),
     elements_count |-> m.elements_count]

\* The hash of the peak above a leaf, from the leaf's hash and its siblings.
RECURSIVE ClimbFrom(_, _, _)
ClimbFrom(hash, leaf_index, siblings_hashes) ==
    IF siblings_hashes = <<>> THEN hash
    ELSE ClimbFrom(IF IsRightChild(leaf_index)
                   THEN HashPair(Head(siblings_hashes), hash)
                   ELSE HashPair(hash, Head(siblings_hashes)),
                   leaf_index \div 2, Tail(siblings_hashes))

\* mmr.verify_proof(proof, element_value, None): "true" or "false" (an error
\* counts as "false").
verify_proof(m, proof, element_value) ==
    IF /\ proof.element_index \in 1..m.elements_count
       /\ IsLeafIndex(proof.element_index)
       /\ Len(proof.peaks_hashes) = Len(find_peaks(m.elements_count))
       /\ Len(proof.siblings_hashes)
             = get_peak_info(m.elements_count, proof.element_index)[2]
       /\ proof.peaks_hashes[get_peak_info(m.elements_count, proof.element_index)[1]]
             = ClimbFrom(element_value,
                         element_index_to_leaf_index(proof.element_index),
                         proof.siblings_hashes)
       /\ calculate_root_hash(BagSeq(proof.peaks_hashes), m.elements_count)
             = calculate_root_hash(bag_the_peaks(m), m.elements_count)
    THEN "true" ELSE "false"

\* A proof with one hash changed: <<"leaf", 0, h>> changes the leaf hash
\* given to verify_proof, <<"sibling", k, h>> and <<"peak", k, h>> the k-th
\* sibling or peak hash of the proof. <<>> changes nothing.
MutatedProof(proof, mutation) ==
    IF mutation = <<>> \/ mutation[1] = "leaf" THEN proof
    ELSE IF mutation[1] = "sibling"
    THEN [proof EXCEPT !.siblings_hashes[mutation[2]] = mutation[3]]
    ELSE [proof EXCEPT !.peaks_hashes[mutation[2]] = mutation[3]]

MutatedLeaf(leaf_hash, mutation) ==
    IF mutation # <<>> /\ mutation[1] = "leaf" THEN mutation[3] ELSE leaf_hash

\* The hashes a hash of the proof may be changed into.
Replacements(m) == LeafValues \cup {BadHash} \cup {m.hashes[i] : i \in DOMAIN m.hashes}

\* The one-hash changes of a proof and its leaf hash.
Mutations(m, proof, leaf_hash) ==
    IF proof = <<>> THEN {} ELSE
    {<<"leaf", 0, h>> : h \in Replacements(m) \ {leaf_hash}}
    \cup {<<"sibling", k, h>> : k \in DOMAIN proof.siblings_hashes,
                               h \in Replacements(m)}
    \cup {<<"peak", k, h>> : k \in DOMAIN proof.peaks_hashes, h \in Replacements(m)}

EngineUnchanged ==
    UNCHANGED <<variant, batch_size, header_store, total_batches, current_batch,
                previous_proofs, run, ret, last, faults, calls, commit, batch_files,
                bp_last, execs, v_last, cli, host_main, hex, update_main>>

\* One leaf appended by the engine.
EngineAppend(h) ==
    /\ pf = NoProof
    /\ mmr.leaves_count < MaxLeaves
    /\ mmr' = append(mmr, h)
    /\ UNCHANGED pf
    /\ EngineUnchanged

\* A batch of leaves appended by a guest and committed.
EngineCommit(elems) ==
    /\ pf = NoProof
    /\ mmr.leaves_count + Len(elems) <= MaxLeaves
    /\ mmr' = update_state(mmr, FaithfulOutput([initial_peaks |-> get_peaks(mmr),
                                                elements_count |-> mmr.elements_count,
                                                leaves_count |-> mmr.leaves_count,
                                                new_elements |-> elems])).mmr
    /\ UNCHANGED pf
    /\ EngineUnchanged

GetProof(element_index) ==
    /\ pf = NoProof
    /\ element_index \in 1..mmr.elements_count
    /\ IsLeafIndex(element_index)
    /\ pf' = [NoProof EXCEPT !.element_index = element_index,
                             !.proof = get_proof(mmr, element_index),
                             !.leaf_hash = mmr.hashes[element_index]]
    /\ UNCHANGED mmr
    /\ EngineUnchanged

\* verify_proof on the proof taken, as it is or with one hash changed.
VerifyProof(mutation) ==
    /\ pf.proof # <<>>
    /\ pf.verdict = "none"
    /\ IF mutation = <<>> THEN TRUE
       ELSE /\ mutation[1] = "leaf" => mutation[3] # pf.leaf_hash
            /\ mutation[1] = "sibling" =>
                  mutation[3] # pf.proof.siblings_hashes[mutation[2]]
            /\ mutation[1] = "peak" => mutation[3] # pf.proof.peaks_hashes[mutation[2]]
    /\ pf' = [pf EXCEPT !.mutation = mutation,
                        !.verdict = verify_proof(mmr, MutatedProof(pf.proof, mutation),
                                                 MutatedLeaf(pf.leaf_hash, mutation))]
    /\ UNCHANGED mmr
    /\ EngineUnchanged

InitEngine == Init /\ variant = "publisher" /\ batch_size = MaxBatchSize

NextEngine ==
    \/ \E h \in LeafValues : EngineAppend(h)
    \/ \E elems \in [1..MaxBatchSize -> LeafValues] : EngineCommit(elems)
    \/ \E i \in 1..(2 * MaxLeaves) : GetProof(i)
    \/ \E mutation \in {<<>>} \cup Mutations(mmr, pf.proof, pf.leaf_hash) :
          VerifyProof(mutation)

SpecEngine == InitEngine /\ [][NextEngine]_vars

\* ---------------------------------- update_mmr_state: the root as a U256
\* A string is the sequence of its characters.
Digits == {"0", "1", "2", "3", "4", "5", "6", "7", "8", "9"}
\* char::is_ascii_hexdigit
is_ascii_hexdigit(c) ==
    c \in Digits \cup {"a", "b", "c", "d", "e", "f"} \cup {"A", "B", "C", "D", "E", "F"}

\* hex_str.starts_with("0x")
starts_with_0x(hex_str) == Len(hex_str) >= 2 /\ hex_str[1] = "0" /\ hex_str[2] = "x"

\* 256 bits = 64 hex digits
MaxHexDigits == 64

\* The length test with >= for >.
TooLong_inclusive(hex_value) == Len(hex_value) >= MaxHexDigits

\* hex_value.len() > 64
TooLong(hex_value) == Len(hex_value) > MaxHexDigits

validate_u256_hex(hex_str) ==
    IF ~starts_with_0x(hex_str) THEN "InvalidU256Hex"
    ELSE IF \E i \in 3..Len(hex_str) : ~is_ascii_hexdigit(hex_str[i])
    THEN "InvalidU256Hex"
    ELSE IF TooLong(SubSeq(hex_str, 3, Len(hex_str))) THEN "InvalidU256Hex"
    ELSE "Ok"

\* The end of update_mmr_state: validate_u256_hex(&new_mmr_root_hash)?, then
\* MmrState::new(.., u256_from_hex(..)?, ..). u256_from_hex is not among the
\* sources: whether it returns Ok is an input.
root_to_state(h) ==
    IF validate_u256_hex(h.hex_str) # "Ok"
    THEN [h EXCEPT !.pc = "returned", !.validated = "InvalidU256Hex",
                   !.returned = "InvalidU256Hex"]
    ELSE [h EXCEPT !.pc = "returned", !.validated = "Ok",
                   !.returned = IF h.u256_ok THEN "MmrState" ELSE "U256Error"]

\* Longest run of one hex digit in the strings tried.
MaxRun == 66

Repeated(c, n) == [i \in 1..n |-> c]

\* The root strings tried: a prefix, a run of one hex digit, an ending.
HexStrings ==
    {p \o Repeated(c, n) \o t :
        p \in {<<>>, <<"0">>, <<"0", "x">>, <<"0", "X">>, <<"x", "0">>,
               <<"0", "x", "0", "x">>},
        c \in {"0", "f"},
        n \in 0..MaxRun,
        t \in {<<>>, <<"F">>, <<"9">>, <<"g">>, <<" ">>}}

InitHex ==
    /\ variant = "publisher"
    /\ batch_size = MaxBatchSize
    /\ header_store = 0..MaxBlock
    /\ mmr = EmptyMMR
    /\ total_batches = 0
    /\ current_batch = 0
    /\ previous_proofs = <<>>
    /\ run = Idle
    /\ ret = NoCall
    /\ last = NoBatch
    /\ faults = 0
    /\ calls = 0
    /\ commit = NoCommit
    /\ batch_files = <<>>
    /\ bp_last = NoBatchCall
    /\ execs = NoExecs
    /\ v_last = NoValidation
    /\ cli = NoRun
    /\ host_main = NoMain
    /\ pf = NoProof
    /\ update_main = NoUpdateMain
    /\ hex \in [pc : {"start"}, hex_str : HexStrings, u256_ok : BOOLEAN,
                validated : {"none"}, returned : {"none"}]

RootToState ==
    /\ hex.pc = "start"
    /\ hex' = root_to_state(hex)
    /\ UNCHANGED <<variant, batch_size, header_store, builder_vars, faults, calls,
                   commit, batch_files, bp_last, execs, v_last, cli, host_main, pf, update_main>>

NextHex == RootToState

SpecHex == InitHex /\ [][NextHex]_vars

\* ------------------------------------------ publisher bin update_mmr: main
\* What update_mmr_with_new_headers returns for process_batch's return r.
UpdateErr(r) ==
    IF r.err # "None" THEN r.err
    ELSE IF r.result[1].proof.type = "Groth16" THEN "None"
    ELSE "ExpectedGroth16Proof"

\* What prove_mmr_update returns once the builder's process_batch returned r:
\* the store as the builder left it, and the new_mmr_state and calldata of
\* an Ok.
ProveReturn(r, end) ==
    [mmr |-> r.b.mmr, err |-> UpdateErr(r),
     new_mmr_state |->
        IF UpdateErr(r) = "None"
        THEN <<[latest_block_number |-> end, root_hash |-> r.result[1].root_hash,
                elements_count |-> r.b.mmr.elements_count,
                leaves_count |-> r.b.mmr.leaves_count]>>
        ELSE <<>>,
     proof |-> IF UpdateErr(r) = "None" THEN <<r.result[1].proof.receipt>> ELSE <<>>]

\* prove_mmr_update is not among the sources; it is modelled from the design:
\* a new AccumulatorBuilder over the store at store_path, then
\* update_mmr_with_new_headers(start, end), whose calldata and new_mmr_state
\* it returns. m is the MMR the store holds.
prove_mmr_update(m, blocks, size, start, end, outcome) ==
    ProveReturn(process_batch("publisher",
                              [mmr |-> m,
                               total_batches |-> UpdateTotalBatches(start, end, size),
                               current_batch |-> 0, previous_proofs |-> <<>>],
                              blocks, start, end, outcome),
                end)

\* The error of prove_mmr_update ignored: main goes on to the submission.
ProveFailed_never(err) == FALSE

\* prove_mmr_update(&store_path, args.start, args.end).await? : an Err
\* returns from main at once.
ProveFailed(err) == err # "None"

\* main of update_mmr from the call of prove_mmr_update on, p being what that
\* call returned: the provider and the account are made (account_ok), then
\* verify_mmr_proof is sent (chain_ok: the chain accepts it).
main_after_prove(u, p, account_ok, chain_ok) ==
    IF ProveFailed(p.err)
    THEN [u EXCEPT !.pc = "done", !.prove_err = p.err, !.err = p.err]
    ELSE IF ~account_ok
    THEN [u EXCEPT !.pc = "done", !.prove_err = p.err,
                   !.new_mmr_state = p.new_mmr_state, !.err = "Starknet"]
    ELSE [u EXCEPT !.pc = "done", !.prove_err = p.err,
                   !.new_mmr_state = p.new_mmr_state,
                   !.submitted = <<[new_mmr_state |-> p.new_mmr_state,
                                    proof |-> p.proof]>>,
                   !.err = IF chain_ok THEN "None" ELSE "Starknet"]

\* main once prove_mmr_update returned p: the store is as the builder left
\* it, whatever main goes on to do.
AfterProve(p, start, end, account_ok, chain_ok) ==
    /\ update_main' = main_after_prove([NoUpdateMain EXCEPT !.start = start, !.end = end],
                                       p, account_ok, chain_ok)
    /\ mmr' = p.mmr

\* One run of update_mmr --start start --end end, start <= end, on the store
\* as the runs before left it. setup_ok: the environment variables and the
\* store path are there.
UpdateMmrMain(start, end, outcome, setup_ok, account_ok, chain_ok) ==
    /\ start <= end
    /\ CountCall
    /\ CountFault(outcome)
    /\ IF ~setup_ok
       THEN /\ update_main' = [NoUpdateMain EXCEPT !.pc = "done", !.start = start,
                                                   !.end = end, !.err = "EnvVarNotSet"]
            /\ UNCHANGED mmr
       ELSE AfterProve(prove_mmr_update(mmr, header_store, batch_size, start, end, outcome),
                       start, end, account_ok, chain_ok)
    /\ UNCHANGED <<variant, batch_size, header_store, total_batches, current_batch,
                   previous_proofs, run, ret, last, commit, batch_files, bp_last, execs,
                   v_last, cli, host_main, pf, hex>>

InitUpdate == Init /\ variant = "publisher"

NextUpdate ==
    \E s \in 0..MaxBlock, e \in 0..MaxBlock, o \in ProverOutcomes :
       \E setup_ok \in BOOLEAN, account_ok \in BOOLEAN, chain_ok \in BOOLEAN :
          UpdateMmrMain(s, e, o, setup_ok, account_ok, chain_ok)

SpecUpdate == InitUpdate /\ [][NextUpdate]_vars

\* C33: if update_mmr_with_new_headers returns an error (in particular
\* ExpectedGroth16Proof), the builder is as before the call: the MMR's
\* counters and node hashes, previous_proofs and current_batch are unchanged.
C33_FailedUpdateLeavesBuilder ==
    [][(/\ calls' = calls + 1
        /\ ret'.op = "update_mmr_with_new_headers"
        /\ ret'.err # "None") =>
           /\ mmr' = mmr
           /\ previous_proofs' = previous_proofs
           /\ current_batch' = current_batch]_vars

\* ------------------------------------------------- claims: BatchProcessor
\* C9: process_batch on a batch whose stored leaves_count >= batch_size
\* returns Ok(None), fetches no headers, invokes no prover and leaves every
\* batch MMR (counters, node hashes, hash_to_index) as it was.
C9_IdempotentSkip ==
    [][(/\ calls' = calls + 1
        /\ bp_last'.batch_index \in DOMAIN batch_files
        /\ batch_files[bp_last'.batch_index].leaves_count >= batch_size) =>
           /\ batch_files' = batch_files
           /\ bp_last'.returned = "None"
           /\ bp_last'.fetched = <<>>
           /\ ~bp_last'.proved]_vars

\* C9 witness: a call on a complete batch was skipped.
C9_Witness ==
    /\ bp_last.returned = "None"
    /\ bp_last.batch_index \in DOMAIN batch_files
    /\ batch_files[bp_last.batch_index].leaves_count >= batch_size
    /\ calls >= 2

\* Block numbers whose hashes are stored in an MMR.
BlocksIn(m) ==
    {m.hashes[i][1] : i \in {j \in DOMAIN m.hashes : Len(m.hashes[j]) = 1}}

\* C10: process_batch(start_block, end_block) with start_block <= end_block
\* uses batch_index = start_block / batch_size, fetches only
\* [start_block, min(end_block, batch_index*batch_size + batch_size - 1)],
\* reports that clamped end, and every block accumulated into batch k
\* satisfies number / batch_size = k.
C10_NoBatchBoundaryCrossing ==
    /\ (bp_last.returned # "none" /\ bp_last.start_block <= bp_last.end_block) =>
         LET k == bp_last.start_block \div batch_size
             clamped == Min(bp_last.end_block, k * batch_size + batch_size - 1)
         IN  /\ bp_last.batch_index = k
             /\ bp_last.fetched # <<>> => bp_last.fetched = <<bp_last.start_block, clamped>>
             /\ \A i \in 1..Len(bp_last.new_elements) :
                   bp_last.new_elements[i] \div batch_size = k
             /\ bp_last.result # <<>> =>
                   /\ bp_last.result[1].end_block = clamped
                   /\ bp_last.result[1].new_mmr_state.latest_block_number = clamped
    /\ \A k \in DOMAIN batch_files :
          \A n \in BlocksIn(batch_files[k]) : n >= 0 => n \div batch_size = k

\* C10 witness: a range reaching past its batch was clamped and committed.
C10_Witness ==
    /\ bp_last.returned = "Some"
    /\ bp_last.start_block <= bp_last.end_block
    /\ bp_last.end_block > bp_last.adjusted_end_block
    /\ Len(bp_last.new_elements) >= 2

\* Whether the header store holds no block of [lo, hi].
NoStoredHeader(lo, hi) == \A n \in lo..hi : n \notin header_store

\* C11: when the header store returns no headers for the clamped range of an
\* incomplete batch, process_batch fails with
\* EmptyHeaders{start_block, end_block = clamped end}, the prover is not
\* invoked and the batch MMR is not changed.
C11_EmptyHeadersFails ==
    [][(/\ calls' = calls + 1
        /\ bp_last'.batch_index = bp_last'.start_block \div batch_size
        /\ (bp_last'.batch_index \in DOMAIN batch_files =>
               batch_files[bp_last'.batch_index].leaves_count < batch_size)
        /\ NoStoredHeader(bp_last'.start_block,
                          Min(bp_last'.end_block,
                              bp_last'.batch_index * batch_size + batch_size - 1))) =>
           /\ bp_last'.returned = "EmptyHeaders"
           /\ bp_last'.err_range =
                 <<bp_last'.start_block,
                   Min(bp_last'.end_block,
                       bp_last'.batch_index * batch_size + batch_size - 1)>>
           /\ ~bp_last'.proved
           /\ \A k \in DOMAIN batch_files : batch_files'[k] = batch_files[k]
           /\ \A k \in DOMAIN batch_files' \ DOMAIN batch_files :
                 batch_files'[k] = EmptyMMR]_vars

\* C11 witness: EmptyHeaders on a start_block <= end_block range, on a
\* batch that already holds leaves.
C11_Witness ==
    /\ bp_last.returned = "EmptyHeaders"
    /\ bp_last.start_block <= bp_last.end_block
    /\ bp_last.batch_index \in DOMAIN batch_files
    /\ batch_files[bp_last.batch_index].leaves_count > 0

\* ------------------------------------------- claims: builder, second part
\* C12: AccumulatorBuilder.process_batch asks the prover for a Groth16 proof
\* iff current_batch = total_batches - 1 at the time of the call, for a STARK
\* proof otherwise, and makes exactly one prover call per batch.
C12_FlavourSelection ==
    [][last'.asked # "none" =>
          /\ last'.asked \in {"Groth16", "Stark"}
          /\ (last'.asked = "Groth16") <=> (current_batch = total_batches' - 1)
          /\ last'.prover_calls = 1]_vars

\* C12 witness: a run whose first batch was asked as STARK and whose second
\* and last batch as Groth16.
C12_Witness ==
    /\ ret.op \in BuildOps
    /\ ret.err = "None"
    /\ ProofTypes(ret.results) = <<"Stark", "Groth16">>
    /\ last.asked = "Groth16"

\* The STARK proofs among a run's results so far, as BatchProofs, in order.
StarkBatchProofs(results) ==
    LET starks == SelectSeq(results, LAMBDA r : r.proof.type = "Stark")
    IN  [i \in 1..Len(starks) |-> [receipt |-> starks[i].proof.receipt]]

\* C13: previous_proofs is empty on a fresh builder and at the start of
\* every build_* run; within a run the previous_proofs passed in the guest
\* input of batch k are the BatchProofs of the STARK proofs of batches
\* 0..k-1 of that run, in processing order.
C13_RecursionChain ==
    /\ previous_proofs = <<>>
    /\ [][/\ (calls' = calls + 1 /\ ret'.op \in BuildOps) => previous_proofs' = <<>>
          /\ (run.pc \in BuildOps /\ last'.asked # "none") =>
                last'.input_proofs = StarkBatchProofs(run.results)]_vars

\* C13 witness: the third batch of a run received the STARK proofs of the
\* first two.
C13_Witness ==
    /\ ret.op \in BuildOps
    /\ last.asked # "none"
    /\ last.err = "None"
    /\ Len(last.input_proofs) = 2
    /\ last.input_proofs[1] # last.input_proofs[2]

\* The k-th range of a downward build from finalized head F with batch size B.
KthRange(F, B, k) == <<Max(0, F - k * B + 1), F - (k - 1) * B>>

\* C14: in a downward build from finalized head F with batch size B the k-th
\* processed range is [max(0, F - k*B + 1), F - (k-1)*B] (descending,
\* disjoint, contiguous, at most B blocks each); with n batches and
\* F = n*B - 1 the ranges are [(n-1)B, nB-1], ..., [B, 2B-1], [0, B-1].
C14_DownwardRanges ==
    (ret.op \in BuildOps /\ ret.err = "None") =>
        LET F == ret.args[1]
            n == Len(ret.results)
        IN  /\ \A k \in 1..n :
                  /\ <<ret.results[k].start_block, ret.results[k].end_block>>
                        = KthRange(F, batch_size, k)
                  /\ ret.results[k].end_block - ret.results[k].start_block + 1
                        <= batch_size
            /\ \A k \in 1..(n - 1) :
                  ret.results[k + 1].end_block = ret.results[k].start_block - 1
            /\ (ret.op = "build_with_num_batches" /\ F = ret.args[2] * batch_size - 1) =>
                  /\ n = ret.args[2]
                  /\ \A k \in 1..n :
                        ret.results[k].start_block = (ret.args[2] - k) * batch_size

\* The blocks of the ranges of a run's results.
ProcessedBlocks(results) ==
    UNION {results[k].start_block .. results[k].end_block : k \in 1..Len(results)}

\* C15: when every batch succeeds, the ranges build_from_finalized processed
\* cover exactly [0, finalized], block 0 included.
C15_WalksDownToZero ==
    (ret.op = "build_from_finalized" /\ ret.err = "None") =>
        ProcessedBlocks(ret.results) = 0..ret.args[1]

\* The least integer not below a / b.
CeilDiv(a, b) == (a + b - 1) \div b

\* C16: build_from_finalized sets total_batches = ceil(finalized /
\* batch_size), which is the number of batches its loop processes when every
\* batch succeeds.
C16_TotalBatchesIsCeil ==
    (ret.op = "build_from_finalized" /\ ret.err = "None") =>
        /\ total_batches = CeilDiv(ret.args[1], batch_size)
        /\ total_batches = Len(ret.results)

\* C17: current_batch is incremented by exactly 1 by a process_batch call
\* that committed its batch and is left unchanged by one that failed (header
\* fetch, proving, journal decoding or commit).
C17_AdvanceOnlyAfterCommit ==
    [][last'.asked # "none" =>
          current_batch' = IF last'.err = "None" THEN current_batch + 1
                           ELSE current_batch]_vars

\* C17 witness: a process_batch call failed after an earlier one of the same
\* builder had advanced current_batch.
C17_Witness ==
    /\ last.asked # "none"
    /\ last.err \in {"ProofGenerator", "InvalidStateTransition", "PeaksVerificationError"}
    /\ current_batch > 0
    /\ mmr.leaves_count > 0

\* C18: once process_batch returns an error inside build_with_num_batches or
\* build_from_finalized the build returns that error and the run is over: no
\* later batch is processed, the prover is not invoked again and the MMR is
\* not written until another public call is made.
C18_FailedBatchAborts ==
    [][/\ (run.pc \in BuildOps /\ last'.err # "None") =>
             /\ run'.pc = "idle"
             /\ ret'.op = run.pc
             /\ ret'.err = last'.err
             /\ ret'.results = <<>>
       /\ (ret.op \in BuildOps /\ ret.err \notin {"None", "Pending"}) =>
             ((mmr' # mmr \/ last' # last \/ previous_proofs' # previous_proofs)
                 => calls' = calls + 1)]_vars

\* C18 witness: build_from_finalized failed in a batch after its first, with
\* blocks below the failed range still unprocessed.
C18_Witness ==
    /\ ret.op = "build_from_finalized"
    /\ ret.err \in {"ProofGenerator", "InvalidStateTransition", "PeaksVerificationError"}
    /\ last.err = ret.err
    /\ current_batch >= 1
    /\ last.start_block >= 2

\* ------------------------------------- claims: concurrent process_batch
\* C19: single writer per batch: no two process_batch executions hold the
\* same batch file open for writing at the same time, and no two executions
\* for the same batch_index commit from the same snapshot of the batch MMR.
C19_SingleWriterPerBatch ==
    \A i \in 1..MaxExecs, j \in 1..MaxExecs :
        (i # j /\ execs[i].batch_index = execs[j].batch_index) =>
            /\ ~(execs[i].pc \in Running /\ execs[j].pc \in Running)
            /\ ~(/\ execs[i].pc = "committed"
                 /\ execs[j].pc = "committed"
                 /\ execs[i].input.elements_count = execs[j].input.elements_count)

\* C36: build_from_finalized and build_with_num_batches terminate:
\* current_end strictly decreases after every processed batch while it is
\* > 0, a loop that ends without an error ends at current_end = 0 (or, for
\* build_with_num_batches, after num_batches iterations), and
\* build_with_num_batches(n) processes at most n batches:
\* min(n, ceil(finalized / batch_size)) when all succeed.
C36_BuildTerminates ==
    /\ [][(run.pc # "idle" /\ run'.pc # "idle") =>
             /\ run'.pc = run.pc
             /\ run.current_end > 0
             /\ run'.current_end < run.current_end
             /\ run'.current_end > 0]_vars
    /\ [][(run.pc # "idle" /\ run'.pc = "idle" /\ ret'.err = "None") =>
             \/ saturating_sub(saturating_sub(run.current_end, batch_size - 1), 1) = 0
             \/ run.pc = "build_with_num_batches" /\ run.left = 1]_vars
    /\ [](run.pc = "build_with_num_batches" =>
             Len(run.results) + run.left = ret.args[2])
    /\ []((ret.op = "build_with_num_batches" /\ ret.err = "None") =>
             Len(ret.results) = Min(ret.args[2], CeilDiv(ret.args[1], batch_size)))
    /\ []((ret.op = "build_from_finalized" /\ ret.err = "None") =>
             Len(ret.results) = CeilDiv(ret.args[1], batch_size))
    /\ (run.pc # "idle") ~> (run.pc = "idle")

\* C36 witness: build_with_num_batches returned fewer batches than asked
\* for, because current_end reached 0 after several batches.
C36_Witness ==
    /\ ret.op = "build_with_num_batches"
    /\ ret.err = "None"
    /\ run.pc = "idle"
    /\ Len(ret.results) >= 1
    /\ Len(ret.results) < ret.args[2]

\* A step in which AccumulatorBuilder.process_batch ran: an iteration of a
\* build_* loop or an update_mmr_with_new_headers call.
ProcessBatchStep ==
    \/ run.pc # "idle"
    \/ calls' = calls + 1 /\ ret'.op = "update_mmr_with_new_headers"

\* C37: whenever AccumulatorBuilder.process_batch evaluates total_batches - 1,
\* total_batches >= 1, on every path through build_with_num_batches
\* (num_batches = 0 included), build_from_finalized and
\* update_mmr_with_new_headers with start_block <= end_block.
C37_NoUnderflowInFinalTest ==
    [][ProcessBatchStep =>
          /\ last'.asked \in {"Groth16", "Stark"}
          /\ total_batches' >= 1]_vars

\* C37 witness: the second public call of a builder, an
\* update_mmr_with_new_headers, ran process_batch with total_batches = 1 and
\* got the Groth16 proof.
C37_Witness ==
    /\ calls = 2
    /\ ret.op = "update_mmr_with_new_headers"
    /\ last.asked = "Groth16"
    /\ total_batches = 1
    /\ current_batch = 1
    /\ ret.err = "None"

\* C31: after any sequence of BatchProcessor.process_batch calls with a
\* faithful guest, the leaves_count of every batch MMR is at most batch_size.
C31_LeavesWithinBatchSize ==
    faults = 0 =>
        \A k \in DOMAIN batch_files : batch_files[k].leaves_count <= batch_size

\* The element indexes of a batch MMR that hold the hash of a block.
BlockLeaves(m) == {i \in DOMAIN m.hashes : Len(m.hashes[i]) = 1 /\ m.hashes[i][1] >= 0}

\* C32: after any sequence of BatchProcessor.process_batch calls with a
\* faithful guest, each block's hash is a leaf of its batch MMR at most once.
C32_NoDuplicateLeaves ==
    faults = 0 =>
        \A k \in DOMAIN batch_files :
           \A i, j \in BlockLeaves(batch_files[k]) :
              batch_files[k].hashes[i] = batch_files[k].hashes[j] => i = j

\* ---------------------------------------------------- claims: Validator
\* The batches the headers of the last validation fall in.
TouchedBatches == {n \div batch_size : n \in SeqRange(v_last.headers)}

\* C20: with skip_proof disabled, if the local root of a touched batch
\* differs from the on-chain root of the same batch_index, the call fails
\* with InvalidMmrRoot{expected = on-chain root, actual = local root}, emits
\* no proofs and never invokes the prover.
C20_RootCrossCheck ==
    (/\ v_last.returned # "none"
     /\ ~v_last.skip_proof
     /\ v_last.onchain_roots # <<>>
     /\ \E k \in TouchedBatches : v_last.onchain_roots[k] # v_last.local_roots[k]) =>
        /\ v_last.returned = "InvalidMmrRoot"
        /\ \E k \in TouchedBatches :
              /\ v_last.expected = v_last.onchain_roots[k]
              /\ v_last.actual = v_last.local_roots[k]
              /\ v_last.expected # v_last.actual
        /\ v_last.proofs = <<>>
        /\ v_last.prover_calls = <<>>

\* C20 witness: two non-empty batches touched, the root of the one verified
\* first matches the chain, the other's does not, and the call failed with
\* InvalidMmrRoot.
C20_Witness ==
    /\ v_last.returned = "InvalidMmrRoot"
    /\ ~v_last.skip_proof
    /\ Cardinality(TouchedBatches) = 2
    /\ v_last.onchain_roots[v_last.opened[1]] = v_last.local_roots[v_last.opened[1]]
    /\ v_last.onchain_roots[v_last.opened[2]] # v_last.local_roots[v_last.opened[2]]
    /\ \A k \in TouchedBatches : v_last.local_roots[k] # mmr_root(EmptyMMR)
    /\ v_last.proofs = <<>>
    /\ v_last.prover_calls = <<>>

\* A step that is a validate_blocks_and_extract_fees call (the call leaves the
\* batch files as they are, so batch_files is what the call read).
ValidationStep == v_last' # v_last

\* The fetched headers of the call whose block hash has no entry in the
\* hash_to_index of their batch file.
HeadersWithoutIndex(headers) ==
    {n \in SeqRange(headers) :
        /\ BatchIndexOf(n, batch_size) \in DOMAIN batch_files
        /\ BlockHash(n) \notin DOMAIN batch_files[BatchIndexOf(n, batch_size)].hash_to_index}

\* Every batch the headers fall in has a batch file.
AllBatchFilesExist(headers) ==
    \A n \in SeqRange(headers) : BatchIndexOf(n, batch_size) \in DOMAIN batch_files

\* C21: if hash_to_index has no entry for the block hash of a fetched header,
\* the Validator fails with MissingElementIndex, produces no proof and has
\* not invoked the prover.
C21_MissingIndexFails ==
    [][(/\ ValidationStep
        /\ AllBatchFilesExist(v_last'.headers)
        /\ HeadersWithoutIndex(v_last'.headers) # {}) =>
           /\ v_last'.returned = "MissingElementIndex"
           /\ v_last'.proofs = <<>>
           /\ v_last'.prover_calls = <<>>]_vars

\* C23: when the header store returns an empty list, the Validator fails
\* with EmptyHeaders, having opened no batch MMR, read no on-chain root and
\* made no prover call.
C23_EmptyHeadersFails ==
    (v_last.returned # "none" /\ v_last.headers = <<>>) =>
        /\ v_last.returned = "EmptyHeaders"
        /\ v_last.opened = <<>>
        /\ v_last.root_reads = <<>>
        /\ v_last.prover_calls = <<>>
        /\ v_last.proofs = <<>>

\* C22: on success the call returns exactly one proof per distinct
\* batch_index among the fetched headers: as many proofs as batches touched,
\* no batch proved twice or omitted.
C22_OneProofPerBatch ==
    v_last.returned = "Ok" =>
        /\ Len(v_last.proofs) = Cardinality(TouchedBatches)
        /\ {v_last.proofs[i].batch_index : i \in DOMAIN v_last.proofs} = TouchedBatches
        /\ \A i, j \in DOMAIN v_last.proofs :
              v_last.proofs[i].batch_index = v_last.proofs[j].batch_index => i = j
        /\ SeqRange(v_last.prover_calls) = TouchedBatches
        /\ Len(v_last.prover_calls) = Cardinality(TouchedBatches)

\* C22 witness: a successful call over headers of two batches, more headers
\* than batches.
C22_Witness ==
    /\ v_last.returned = "Ok"
    /\ Cardinality(TouchedBatches) = 2
    /\ Len(v_last.headers) > 2
    /\ Len(v_last.proofs) = 2

\* The fetched headers of the call that fall in batch b, in fetched order.
FetchedOfBatch(headers, b) == SelectSeq(headers, LAMBDA n : n \div batch_size = b)

\* C29: the prover input of every touched batch holds exactly the fetched
\* headers of that batch_index, in fetched order, and one inclusion proof per
\* header, the i-th for the element index hash_to_index gives for the i-th
\* header's block hash; if the counts differ the call fails with
\* InvalidProofsCount{expected = headers, actual = proofs} and the prover is
\* not invoked for that batch.
C29_ProverInputPerBatch ==
    [][ValidationStep =>
        /\ Len(v_last'.prover_inputs) = Len(v_last'.prover_calls)
        /\ \A k \in DOMAIN v_last'.prover_inputs :
              /\ v_last'.prover_inputs[k].batch_index = v_last'.prover_calls[k]
              /\ v_last'.prover_calls[k] = v_last'.opened[k]
              /\ v_last'.prover_inputs[k].headers =
                     FetchedOfBatch(v_last'.headers, v_last'.prover_calls[k])
              /\ Len(v_last'.prover_inputs[k].proofs) =
                     Len(v_last'.prover_inputs[k].headers)
              /\ \A i \in DOMAIN v_last'.prover_inputs[k].proofs :
                    v_last'.prover_inputs[k].proofs[i].element_index =
                       batch_files[v_last'.prover_calls[k]].hash_to_index[
                           BlockHash(v_last'.prover_inputs[k].headers[i])]
        /\ v_last'.returned = "InvalidProofsCount" =>
              /\ Len(v_last'.prover_calls) < Len(v_last'.opened)
              /\ v_last'.expected =
                     Len(FetchedOfBatch(v_last'.headers,
                                        v_last'.opened[Len(v_last'.prover_calls) + 1]))
              /\ v_last'.actual # v_last'.expected
              /\ v_last'.proofs = <<>>]_vars

\* C29 witness: a successful call over two batches in which the prover got
\* an input with several headers and as many inclusion proofs, for distinct
\* element indexes.
C29_Witness ==
    /\ v_last.returned = "Ok"
    /\ Len(v_last.prover_inputs) = 2
    /\ \E k \in DOMAIN v_last.prover_inputs :
          /\ Len(v_last.prover_inputs[k].headers) >= 2
          /\ Len(v_last.prover_inputs[k].proofs) = Len(v_last.prover_inputs[k].headers)
          /\ v_last.prover_inputs[k].proofs[1].element_index #
                v_last.prover_inputs[k].proofs[2].element_index

\* C30: with skip_proof enabled the call reads no on-chain root, compares no
\* root and never returns InvalidMmrRoot, and a successful call has still
\* resolved the element index of every fetched header and produced one proof
\* per touched batch; with skip_proof disabled the prover is invoked only
\* after the roots of all touched batches were read and found equal to the
\* local ones.
C30_SkipProof ==
    v_last.returned # "none" =>
        /\ v_last.skip_proof =>
              /\ v_last.root_reads = <<>>
              /\ v_last.onchain_roots = <<>>
              /\ v_last.returned # "InvalidMmrRoot"
              /\ v_last.returned = "Ok" =>
                    /\ Len(v_last.proofs) = Cardinality(TouchedBatches)
                    /\ SeqRange(v_last.prover_calls) = TouchedBatches
                    /\ \A n \in SeqRange(v_last.headers) :
                          \E k \in DOMAIN v_last.prover_inputs :
                             \E i \in DOMAIN v_last.prover_inputs[k].proofs :
                                v_last.prover_inputs[k].headers[i] = n
        /\ (~v_last.skip_proof /\ v_last.prover_calls # <<>>) =>
              /\ SeqRange(v_last.root_reads) = TouchedBatches
              /\ \A k \in TouchedBatches :
                    v_last.onchain_roots[k] = v_last.local_roots[k]

\* C30 witness: a successful call with skip_proof enabled over headers of two
\* batches, without any on-chain read.
C30_Witness ==
    /\ v_last.returned = "Ok"
    /\ v_last.skip_proof
    /\ v_last.root_reads = <<>>
    /\ Cardinality(TouchedBatches) = 2
    /\ Len(v_last.headers) > 2
    /\ Len(v_last.proofs) = 2

\* C34: validate_blocks_and_extract_fees, whether it succeeds or fails,
\* leaves elements_count, leaves_count, node hashes and hash_to_index of
\* every batch MMR as they were, and every MMRInput it sends to the prover
\* has empty new_elements and the current peaks and counters of that batch's
\* MMR.
C34_ValidatorReadOnly ==
    [][ValidationStep =>
        /\ batch_files' = batch_files
        /\ \A k \in DOMAIN v_last'.prover_inputs :
              /\ v_last'.prover_inputs[k].mmr_input.new_elements = <<>>
              /\ v_last'.prover_inputs[k].mmr_input.initial_peaks =
                    get_peaks(batch_files[v_last'.prover_calls[k]])
              /\ v_last'.prover_inputs[k].mmr_input.elements_count =
                    batch_files[v_last'.prover_calls[k]].elements_count
              /\ v_last'.prover_inputs[k].mmr_input.leaves_count =
                    batch_files[v_last'.prover_calls[k]].leaves_count]_vars

\* C34 witness: a call sent the prover the inputs of two batches, one of
\* them that of an MMR holding two leaves and their parent.
C34_Witness ==
    /\ v_last.returned \in {"Ok", "ProofGenerator"}
    /\ Len(v_last.prover_inputs) = 2
    /\ \E k \in DOMAIN v_last.prover_inputs :
          /\ v_last.prover_inputs[k].mmr_input.initial_peaks # <<>>
          /\ v_last.prover_inputs[k].mmr_input.leaves_count = 2
          /\ v_last.prover_inputs[k].mmr_input.elements_count = 3
    /\ \A k \in DOMAIN v_last.prover_inputs :
          v_last.prover_inputs[k].mmr_input.new_elements = <<>>

\* ----------------------------------------------------- claims: update_mmr
\* C35: update_mmr submits verify_mmr_proof only after prove_mmr_update
\* returned Ok, that is after the local MMR commit; if proving or the commit
\* fails nothing is submitted, and the submitted state is the new_mmr_state
\* of that commit: the root and counters the local MMR now has, at block end.
C35_SubmitAfterCommit ==
    update_main.pc = "done" =>
        /\ update_main.prove_err # "None" => update_main.submitted = <<>>
        /\ update_main.submitted # <<>> =>
              /\ Len(update_main.submitted) = 1
              /\ update_main.prove_err = "None"
              /\ update_main.submitted[1].new_mmr_state = update_main.new_mmr_state
              /\ update_main.submitted[1].new_mmr_state =
                    <<[latest_block_number |-> update_main.end,
                       root_hash |-> NewRoot(mmr),
                       elements_count |-> mmr.elements_count,
                       leaves_count |-> mmr.leaves_count]>>

\* C35 witness: a second run committed two more blocks to a non-empty MMR
\* and submitted the state of that commit.
C35_Witness ==
    /\ update_main.pc = "done"
    /\ calls = 2
    /\ update_main.submitted # <<>>
    /\ update_main.err = "None"
    /\ update_main.end > update_main.start
    /\ mmr.leaves_count >= 3

\* ------------------------------------------------------------ claims: cli
BuildModes ==
    {"build_from_latest_with_batches", "build_from_latest",
     "build_from_block_with_batches", "build_from_block",
     "build_with_num_batches", "build_from_finalized"}

ProofsOf(results) == [i \in 1..Len(results) |-> results[i].proof]

\* C25: the host submits to the on-chain verifier only Groth16 results: in
\* the step of main that follows its build, what is submitted is a
\* subsequence of the Groth16 proofs of the build's results (all of them when
\* main finishes), no STARK result is submitted, and anything is submitted
\* only when the whole build returned Ok.
C25_OnlyGroth16Submitted ==
    [][host_main' # host_main =>
          /\ \A i \in DOMAIN host_main'.submitted :
                host_main'.submitted[i].type = "Groth16"
          /\ \E n \in 0..Len(ret.results) :
                host_main'.submitted =
                    SelectSeq(SubSeq(ProofsOf(ret.results), 1, n),
                              LAMBDA q : q.type = "Groth16")
          /\ host_main'.pc = "finished" =>
                host_main'.submitted =
                    SelectSeq(ProofsOf(ret.results), LAMBDA q : q.type = "Groth16")
          /\ host_main'.submitted # <<>> =>
                /\ ret.op \in BuildOps
                /\ ret.err = "None"
                /\ run.pc = "idle"]_vars

\* C25 witness: main finished over a build that returned a STARK result and
\* a Groth16 result; one proof was submitted.
C25_Witness ==
    /\ host_main.pc = "finished"
    /\ \E i \in DOMAIN host_main.results : host_main.results[i].proof.type = "Stark"
    /\ \E i \in DOMAIN host_main.results : host_main.results[i].proof.type = "Groth16"
    /\ Len(host_main.submitted) = 1

\* ------------------------------------------------------ claims: MMR engine
\* C26: for an MMR built from any sequence of leaves and every leaf element
\* index of it, verify_proof on get_proof's proof and the stored leaf hash
\* returns true; with the leaf hash, a sibling hash or a peak hash changed
\* it returns false.
C26_ProofRoundTrip ==
    pf.verdict # "none" =>
        /\ pf.mutation = <<>> => pf.verdict = "true"
        /\ pf.mutation # <<>> => pf.verdict = "false"

\* C26 witness: the proof of the eighth leaf (element index 12) of an MMR of
\* 8 leaves verified.
C26_Witness ==
    /\ mmr.leaves_count = 8
    /\ pf.element_index = 12
    /\ Len(pf.proof.siblings_hashes) = 3
    /\ pf.mutation = <<>>
    /\ pf.verdict = "true"

\* C28: after L leaves are appended to an empty MMR, one by one or in
\* committed batches, elements_count = 2L - popcount(L) and there are
\* popcount(L) peaks.
C28_ElementsAndPeaksCount ==
    /\ mmr.elements_count = 2 * mmr.leaves_count - PopCount(mmr.leaves_count)
    /\ Len(get_peaks(mmr)) = PopCount(mmr.leaves_count)
    /\ Len(find_peaks(mmr.elements_count)) = PopCount(mmr.leaves_count)
    /\ mmr.leaves_count = 4 => mmr.elements_count = 7 /\ Len(get_peaks(mmr)) = 1
    /\ mmr.leaves_count = 3 => mmr.elements_count = 4 /\ Len(get_peaks(mmr)) = 2

\* C28 witness: 4 leaves, 7 elements, one peak.
C28_Witness ==
    /\ mmr.leaves_count = 4
    /\ mmr.elements_count = 7
    /\ Len(get_peaks(mmr)) = 1

\* ------------------------------------------------------ claims: root hex
\* The U256 check in the words of the design: prefix 0x, then hex digits
\* only, at most 64 of them.
PassesU256Check(str) ==
    /\ Len(str) >= 2
    /\ SubSeq(str, 1, 2) = <<"0", "x">>
    /\ \A i \in 3..Len(str) :
          str[i] \in {"0", "1", "2", "3", "4", "5", "6", "7", "8", "9",
                      "a", "b", "c", "d", "e", "f", "A", "B", "C", "D", "E", "F"}
    /\ Len(str) - 2 <= 64

\* C27: validate_u256_hex accepts a string exactly when it passes the U256
\* check; a commit that returns an MmrState has a root that passes it, and
\* otherwise the commit fails with InvalidU256Hex.
C27_RootHexValidity ==
    hex.pc = "returned" =>
        /\ hex.validated = "Ok" <=> PassesU256Check(hex.hex_str)
        /\ hex.returned = "MmrState" => PassesU256Check(hex.hex_str)
        /\ ~PassesU256Check(hex.hex_str) => hex.returned = "InvalidU256Hex"

\* C27 witness: a root of 0x and 64 hex digits accepted.
C27_Witness ==
    /\ hex.pc = "returned"
    /\ Len(hex.hex_str) = 66
    /\ hex.validated = "Ok"
    /\ hex.returned = "MmrState"
====
